---- MODULE Spec2Model ----
(***************************************************************************)
(* Model of the puppeteer_get_compact_page_representation tool of          *)
(* src/src/tools/handlers.ts: the in-page pipeline that clones the         *)
(* document element, filters and prunes the clone and serializes it to an  *)
(* S-expression.                                                           *)
(*                                                                         *)
(* JavaScript strings are tuples of one-character strings, so that trim,   *)
(* toLowerCase, startsWith, includes, split and replace are computed the   *)
(* way the code computes them.  DOM nodes live in a heap (a tuple of node  *)
(* records indexed by node identity); a node that was removed from its     *)
(* parent stays in the heap, detached, as it does in the page.             *)
(***************************************************************************)
EXTENDS Integers, Sequences, FiniteSets, TLC

VARIABLES
    heap,     \* the page's DOM nodes, live ones and clones: node id -> node
    root,     \* `root` of the callback: the working clone (Null before cloning)
    pc,       \* the next stage of the callback, or the next step of the handler
    opts,     \* the options record handed to page.evaluate
    sexpr,    \* the callback's result, the S-expression
    args,     \* the arguments of the tool call being handled
    result,   \* what the promise handleToolCall returned has settled to
    calls,    \* the number of tool calls started so far
    screenshots,   \* state.screenshots: name -> base64 data
    notifications, \* the number of notifyScreenshotUpdate notifications sent
    file,          \* what the file system holds at filePath
    screenshot,    \* `screenshot` of the screenshot handler
    lastStat,      \* what the latest stat(filePath) of the call reported
    atCall,        \* state.screenshots and notifications as the call found them
    listeners,     \* the page's 'console' listeners, in registration order
    logs,          \* `logs` of the evaluate handler
    env,           \* the process environment browser.ts reads
    npxArgs        \* `npxArgs` of browser.ts

pipelineVars == <<heap, root, opts, sexpr>>
callVars == <<args, result, calls>>
screenshotVars == <<screenshots, notifications, file, screenshot, lastStat, atCall>>
evaluateVars == <<listeners, logs>>
configVars == <<env, npxArgs>>

\* the variables of the handlers other than the one a specification is about
handlerVars == <<screenshotVars, evaluateVars, configVars>>

vars == <<pipelineVars, pc, callVars, handlerVars>>

-----------------------------------------------------------------------------
(* Bounds of the model *)

\* number of nodes below <body> in a generated input document
MaxNodes == 3

\* number of tool calls a server handles in a run
MaxCalls == 2

-----------------------------------------------------------------------------
(* JavaScript strings *)

\* the printable ASCII characters, code units 32 to 126, in order
Ascii ==
  <<
     " ", "!", "\"", "#", "$", "%", "&", "'", "(", ")", "*", "+", ",", "-", ".", "/",
     "0", "1", "2", "3", "4", "5", "6", "7", "8", "9", ":", ";", "<", "=", ">", "?",
     "@", "A", "B", "C", "D", "E", "F", "G", "H", "I", "J", "K", "L", "M", "N", "O",
     "P", "Q", "R", "S", "T", "U", "V", "W", "X", "Y", "Z", "[", "\\", "]", "^", "_",
     "\f", "a", "b", "c", "d", "e", "f", "g", "h", "i", "j", "k", "l", "m", "n", "o",
     "p", "q", "r", "s", "t", "u", "v", "w", "x", "y", "z", "{", "|", "}", "~" >>

\* (code 96, the grave accent, cannot be written in a string of this language;
\*  a form feed holds its place and no string of the model contains either)

\* the UTF-16 code unit of a character (the order JavaScript's < compares by)
CharCode(c) ==
    IF c = "\t" THEN 9
    ELSE IF c = "\n" THEN 10
    ELSE 31 + (CHOOSE i \in DOMAIN Ascii : Ascii[i] = c)

\* the characters toLowerCase changes
UpperCase == {Ascii[i] : i \in 34..59}

\* String.prototype.toLowerCase, one character
LowerChar(c) == IF c \in UpperCase THEN Ascii[CharCode(c) + 32 - 31] ELSE c

toLowerCase(s) == [i \in DOMAIN s |-> LowerChar(s[i])]

\* the characters String.prototype.trim and the regular expression \s match
IsSpace(c) == c \in {" ", "\t", "\n"}

RECURSIVE TrimStart(_)
TrimStart(s) ==
    IF s # <<>> /\ IsSpace(Head(s)) THEN TrimStart(Tail(s)) ELSE s

RECURSIVE TrimEnd(_)
TrimEnd(s) ==
    IF s # <<>> /\ IsSpace(s[Len(s)]) THEN TrimEnd(SubSeq(s, 1, Len(s) - 1)) ELSE s

trim(s) == TrimEnd(TrimStart(s))

startsWith(s, p) == Len(s) >= Len(p) /\ SubSeq(s, 1, Len(p)) = p

includes(s, p) ==
    \E i \in 0..(Len(s) - Len(p)) : SubSeq(s, i + 1, i + Len(p)) = p

\* String.prototype.indexOf for one character: 0-based, -1 when absent
indexOf(s, c) ==
    IF \E i \in DOMAIN s : s[i] = c
    THEN (CHOOSE i \in DOMAIN s : s[i] = c /\ \A j \in 1..(i - 1) : s[j] # c) - 1
    ELSE -1

\* String.prototype.split on a one-character separator
RECURSIVE split(_, _)
split(s, sep) ==
    LET idx == indexOf(s, sep)
    IN  IF idx = -1 THEN <<s>>
        ELSE <<SubSeq(s, 1, idx)>> \o split(SubSeq(s, idx + 2, Len(s)), sep)

\* s.split(/\s+/).filter(Boolean): the maximal runs of non-space characters
RECURSIVE SplitSpaces(_)
SplitSpaces(s) ==
    LET t == TrimStart(s)
    IN  IF t = <<>> THEN <<>>
        ELSE LET n == IF \E i \in DOMAIN t : IsSpace(t[i])
                      THEN (CHOOSE i \in DOMAIN t :
                               IsSpace(t[i]) /\ \A j \in 1..(i - 1) : ~IsSpace(t[j])) - 1
                      ELSE Len(t)
             IN  <<SubSeq(t, 1, n)>> \o SplitSpaces(SubSeq(t, n + 1, Len(t)))

\* Array.prototype.join
RECURSIVE join(_, _)
join(parts, sep) ==
    IF parts = <<>> THEN <<>>
    ELSE IF Len(parts) = 1 THEN parts[1]
    ELSE parts[1] \o sep \o join(Tail(parts), sep)

\* a < b on JavaScript strings
RECURSIVE StrLess(_, _)
StrLess(a, b) ==
    IF b = <<>> THEN FALSE
    ELSE IF a = <<>> THEN TRUE
    ELSE IF CharCode(a[1]) # CharCode(b[1]) THEN CharCode(a[1]) < CharCode(b[1])
    ELSE StrLess(Tail(a), Tail(b))

\* the string a tuple of characters spells
RECURSIVE Str(_)
Str(s) == IF s = <<>> THEN "" ELSE Head(s) \o Str(Tail(s))

\* a decimal digit, and String(n) for a natural number
Digit(d) == Ascii[d + 17]

RECURSIVE NumStr(_)
NumStr(n) == IF n < 10 THEN <<Digit(n)>> ELSE NumStr(n \div 10) \o <<Digit(n % 10)>>

\* the members of an array, as a set
Range(s) == {s[i] : i \in DOMAIN s}

-----------------------------------------------------------------------------
(* The options and the static tables of the callback *)

\* the constant options of the tool (its arguments are ignored)
Options ==
    [ interactiveTags |-> <<<<"a">>, <<"b","u","t","t","o","n">>, <<"i","n","p","u","t">>, <<"i">>, <<"s","e","l","e","c","t">>, <<"t","e","x","t","a","r","e","a">>>>,
      keepAttrs       |-> <<<<"i","d">>, <<"c","l","a","s","s">>, <<"h","r","e","f">>, <<"s","r","c">>, <<"s","r","c","s","e","t">>>>,
      stripAttrs      |-> TRUE,
      dropAriaAttrs   |-> TRUE,
      dropDataAttrs   |-> FALSE,
      keepStyle       |-> TRUE,
      pretty          |-> FALSE,
      indent          |-> 2,
      cssHead         |-> TRUE,
      includeIdInHead |-> TRUE,
      spanAlias       |-> <<"s","p","a","n">>,
      attrMap         |-> TRUE,
      relevantOnly    |-> TRUE ]

\* new Set(arr.map(s => String(s).toLowerCase()))
toLowerSet(arr) == {toLowerCase(arr[i]) : i \in DOMAIN arr}

KEEP(o) == toLowerSet(o.keepAttrs)

INTER(o) == toLowerSet(o.interactiveTags)

REMOVE_TAGS ==
    <<<<"s","c","r","i","p","t">>, <<"s","t","y","l","e">>, <<"n","o","s","c","r","i","p","t">>, <<"t","e","m","p","l","a","t","e">>, <<"m","e","t","a">>, <<"l","i","n","k">>, <<"s","v","g">>, <<"m","a","t","h">>>>

ALLOWED_HTML_TAGS ==
    { <<"h","t","m","l">>, <<"h","e","a","d">>, <<"t","i","t","l","e">>, <<"b","a","s","e">>, <<"l","i","n","k">>, <<"m","e","t","a">>, <<"s","t","y","l","e">>, <<"s","c","r","i","p","t">>, <<"n","o","s","c","r","i","p","t">>, <<"b","o","d","y">>,
      <<"s","e","c","t","i","o","n">>, <<"n","a","v">>, <<"a","r","t","i","c","l","e">>, <<"a","s","i","d","e">>, <<"h","1">>, <<"h","2">>, <<"h","3">>, <<"h","4">>, <<"h","5">>, <<"h","6">>, <<"h","e","a","d","e","r">>,
      <<"f","o","o","t","e","r">>, <<"a","d","d","r","e","s","s">>, <<"m","a","i","n">>, <<"p">>, <<"h","r">>, <<"p","r","e">>, <<"b","l","o","c","k","q","u","o","t","e">>, <<"o","l">>, <<"u","l">>, <<"l","i">>, <<"d","l">>, <<"d","t">>,
      <<"d","d">>, <<"f","i","g","u","r","e">>, <<"f","i","g","c","a","p","t","i","o","n">>, <<"d","i","v">>, <<"a">>, <<"e","m">>, <<"s","t","r","o","n","g">>, <<"s","m","a","l","l">>, <<"s">>, <<"c","i","t","e">>, <<"q">>, <<"d","f","n">>,
      <<"a","b","b","r">>, <<"r","u","b","y">>, <<"r","b">>, <<"r","t">>, <<"r","t","c">>, <<"r","p">>, <<"d","a","t","a">>, <<"t","i","m","e">>, <<"c","o","d","e">>, <<"v","a","r">>, <<"s","a","m","p">>, <<"k","b","d">>,
      <<"s","u","b">>, <<"s","u","p">>, <<"i">>, <<"b">>, <<"u">>, <<"m","a","r","k">>, <<"b","d","i">>, <<"b","d","o">>, <<"s","p","a","n">>, <<"b","r">>, <<"w","b","r">>, <<"i","n","s">>, <<"d","e","l">>,
      <<"p","i","c","t","u","r","e">>, <<"s","o","u","r","c","e">>, <<"i","m","g">>, <<"i","f","r","a","m","e">>, <<"e","m","b","e","d">>, <<"o","b","j","e","c","t">>, <<"p","a","r","a","m">>, <<"v","i","d","e","o">>, <<"a","u","d","i","o">>, <<"t","r","a","c","k">>,
      <<"m","a","p">>, <<"a","r","e","a">>, <<"t","a","b","l","e">>, <<"c","a","p","t","i","o","n">>, <<"c","o","l","g","r","o","u","p">>, <<"c","o","l">>, <<"t","b","o","d","y">>, <<"t","h","e","a","d">>, <<"t","f","o","o","t">>, <<"t","r">>, <<"t","d">>,
      <<"t","h">>, <<"f","o","r","m">>, <<"l","a","b","e","l">>, <<"i","n","p","u","t">>, <<"b","u","t","t","o","n">>, <<"s","e","l","e","c","t">>, <<"d","a","t","a","l","i","s","t">>, <<"o","p","t","g","r","o","u","p">>, <<"o","p","t","i","o","n">>, <<"t","e","x","t","a","r","e","a">>,
      <<"o","u","t","p","u","t">>, <<"p","r","o","g","r","e","s","s">>, <<"m","e","t","e","r">>, <<"f","i","e","l","d","s","e","t">>, <<"l","e","g","e","n","d">>, <<"d","e","t","a","i","l","s">>, <<"s","u","m","m","a","r","y">>, <<"d","i","a","l","o","g">>, <<"s","l","o","t">>,
      <<"t","e","m","p","l","a","t","e">>, <<"c","a","n","v","a","s">>, <<"m","e","n","u">> }

\* tagAllow[tag], the empty set for a tag the table does not list
tagAllow(tag) ==
    CASE tag = <<"a">>        -> {<<"h","r","e","f">>}
      [] tag = <<"i","m","g">>      -> {<<"s","r","c">>, <<"s","r","c","s","e","t">>}
      [] tag = <<"i","n","p","u","t">>    -> {<<"t","y","p","e">>, <<"n","a","m","e">>, <<"v","a","l","u","e">>, <<"c","h","e","c","k","e","d">>, <<"d","i","s","a","b","l","e","d">>, <<"p","l","a","c","e","h","o","l","d","e","r">>}
      [] tag = <<"l","a","b","e","l">>    -> {<<"f","o","r">>}
      [] tag = <<"b","u","t","t","o","n">>   -> {<<"t","y","p","e">>, <<"n","a","m","e">>, <<"v","a","l","u","e">>, <<"d","i","s","a","b","l","e","d">>}
      [] tag = <<"s","e","l","e","c","t">>   -> {<<"n","a","m","e">>, <<"d","i","s","a","b","l","e","d">>, <<"m","u","l","t","i","p","l","e">>}
      [] tag = <<"o","p","t","i","o","n">>   -> {<<"v","a","l","u","e">>, <<"s","e","l","e","c","t","e","d">>, <<"d","i","s","a","b","l","e","d">>}
      [] tag = <<"t","e","x","t","a","r","e","a">> -> {<<"n","a","m","e">>, <<"d","i","s","a","b","l","e","d">>, <<"p","l","a","c","e","h","o","l","d","e","r">>}
      [] tag = <<"f","o","r","m">>     -> {}
      [] tag = <<"i","f","r","a","m","e">>   -> {<<"s","r","c">>}
      [] OTHER            -> {}

-----------------------------------------------------------------------------
(* The DOM *)

\* null: no node
Null == 0

ELEMENT_NODE == 1
TEXT_NODE == 3
COMMENT_NODE == 8

\* document.documentElement: the live document's root is node 1
documentElement == 1

\* A node: nodeType; tagName (upper case, as the DOM reports it for an HTML
\* element); attrs, the attributes in order, each [name, value]; childNodes,
\* the ids of the children in order; parentNode; data, the text of a text or
\* comment node.
isElement(h, n) == h[n].nodeType = ELEMENT_NODE

\* el.tagName.toLowerCase()
tagNameLower(h, el) == toLowerCase(h[el].tagName)

parentElement(h, n) ==
    LET p == h[n].parentNode
    IN  IF p # Null /\ isElement(h, p) THEN p ELSE Null

\* node.children: the element children
children(h, n) == SelectSeq(h[n].childNodes, LAMBDA c : isElement(h, c))

Without(s, x) == SelectSeq(s, LAMBDA y : y # x)

removeChild(h, p, c) ==
    [h EXCEPT ![p].childNodes = Without(@, c), ![c].parentNode = Null]

\* child.parentElement?.removeChild(child)
removeFromParentElement(h, c) ==
    IF parentElement(h, c) = Null THEN h ELSE removeChild(h, parentElement(h, c), c)

\* child.parentNode?.removeChild(child)
removeFromParentNode(h, c) ==
    IF h[c].parentNode = Null THEN h ELSE removeChild(h, h[c].parentNode, c)

\* parent.insertBefore(node, ref): node leaves its old parent and becomes the
\* child of parent right before ref
insertBefore(h, parent, node, ref) ==
    LET h1   == removeFromParentNode(h, node)
        kids == h1[parent].childNodes
        k    == CHOOSE i \in DOMAIN kids : kids[i] = ref
    IN  [h1 EXCEPT ![parent].childNodes =
                       SubSeq(kids, 1, k - 1) \o <<node>> \o SubSeq(kids, k, Len(kids)),
                   ![node].parentNode = parent]

\* the element descendants of the nodes `kids`, from the k-th on, in document order
RECURSIVE ElementsIn(_, _, _)
ElementsIn(h, kids, k) ==
    IF k > Len(kids) THEN <<>>
    ELSE (IF isElement(h, kids[k])
          THEN <<kids[k]>> \o ElementsIn(h, h[kids[k]].childNodes, 1)
          ELSE <<>>) \o ElementsIn(h, kids, k + 1)

\* rootEl.querySelectorAll('*'), as a snapshot array
querySelectorAllStar(h, rootEl) == ElementsIn(h, h[rootEl].childNodes, 1)

\* rootEl.querySelectorAll(t1,t2,...) for a selector list of tag names; a type
\* selector matches an HTML element's name case-insensitively
querySelectorAll(h, rootEl, tags) ==
    SelectSeq(querySelectorAllStar(h, rootEl), LAMBDA el : tagNameLower(h, el) \in tags)

\* Array.prototype.forEach over a snapshot array, threading the heap through cb
forEach(h, list, cb(_, _)) ==
    LET after[k \in 0..Len(list)] == IF k = 0 THEN h ELSE cb(after[k - 1], list[k])
    IN  after[Len(list)]

hasAttribute(h, el, name) == \E i \in DOMAIN h[el].attrs : h[el].attrs[i].name = name

\* el.getAttribute(name) || '' : the value, the empty string when absent
getAttributeOrEmpty(h, el, name) ==
    IF hasAttribute(h, el, name)
    THEN LET i == CHOOSE i \in DOMAIN h[el].attrs :
                     /\ h[el].attrs[i].name = name
                     /\ \A j \in 1..(i - 1) : h[el].attrs[j].name # name
         IN  h[el].attrs[i].value
    ELSE <<>>

getAttributeNames(h, el) == [i \in DOMAIN h[el].attrs |-> h[el].attrs[i].name]

removeAttribute(h, el, name) ==
    [h EXCEPT ![el].attrs = SelectSeq(@, LAMBDA a : a.name # name)]

setAttribute(h, el, name, value) ==
    IF hasAttribute(h, el, name)
    THEN [h EXCEPT ![el].attrs =
             [i \in DOMAIN @ |-> IF @[i].name = name THEN [name |-> name, value |-> value]
                                 ELSE @[i]]]
    ELSE [h EXCEPT ![el].attrs = Append(@, [name |-> name, value |-> value])]

\* a cloneNode that hands back the node itself: the callback works on the live tree
cloneNodeShared(h, r) == [heap |-> h, node |-> r]

\* originalRoot.cloneNode(true): a copy of every node of the subtree, detached
\* from the original's parent; the copy of node i is node i + Len(h)
cloneNode(h, r) ==
    LET n        == Len(h)
        shift(i) == IF i = Null THEN Null ELSE i + n
        copy(i)  == [h[i] EXCEPT !.childNodes = [k \in DOMAIN @ |-> shift(@[k])],
                                 !.parentNode = IF i = r THEN Null ELSE shift(@)]
    IN  [heap |-> h \o [i \in 1..n |-> copy(i)], node |-> shift(r)]

\* the nodes of the tree below and including n
RECURSIVE Subtree(_, _)
Subtree(h, n) ==
    {n} \cup UNION {Subtree(h, h[n].childNodes[k]) : k \in DOMAIN h[n].childNodes}

\* the nodes of the tree below and including n, in document order
RECURSIVE DocOrder(_, _)
RECURSIVE DocOrderOf(_, _, _)
DocOrderOf(h, kids, k) ==
    IF k > Len(kids) THEN <<>> ELSE DocOrder(h, kids[k]) \o DocOrderOf(h, kids, k + 1)
DocOrder(h, n) == <<n>> \o DocOrderOf(h, h[n].childNodes, 1)

-----------------------------------------------------------------------------
(* The stages of the callback *)

\* 1) removeComments(node)
RECURSIVE removeComments(_, _)
removeComments(h, node) ==
    forEach(h, h[node].childNodes,
            LAMBDA h1, child :
                IF h1[child].nodeType = COMMENT_NODE THEN removeFromParentNode(h1, child)
                ELSE IF h1[child].nodeType = ELEMENT_NODE THEN removeComments(h1, child)
                ELSE h1)

\* removeTags looking at the children of the root only, not at every descendant
removeTagsChildrenOnly(h, r) ==
    forEach(h, REMOVE_TAGS,
            LAMBDA h1, tag :
                forEach(h1, SelectSeq(children(h1, r), LAMBDA c : tagNameLower(h1, c) = tag),
                        LAMBDA h2, t : removeFromParentElement(h2, t)))

\* 2) for each tag of REMOVE_TAGS, remove every element root.querySelectorAll(tag) finds
removeTags(h, r) ==
    forEach(h, REMOVE_TAGS,
            LAMBDA h1, tag :
                forEach(h1, querySelectorAll(h1, r, {tag}),
                        LAMBDA h2, t : removeFromParentElement(h2, t)))

\* 3) remove the elements whose tag name contains ':'
removeNamespaced(h, r) ==
    forEach(h, querySelectorAllStar(h, r),
            LAMBDA h1, el :
                IF includes(tagNameLower(h1, el), <<":">>) THEN removeFromParentElement(h1, el)
                ELSE h1)

\* while (el.firstChild) parent.insertBefore(el.firstChild, el)
RECURSIVE moveChildrenBefore(_, _, _)
moveChildrenBefore(h, parent, el) ==
    IF h[el].childNodes = <<>> THEN h
    ELSE moveChildrenBefore(insertBefore(h, parent, h[el].childNodes[1], el), parent, el)

\* unwrap with parent.appendChild(el.firstChild): the children go to the end of
\* the parent instead of the place of el
unwrapAppending(h, el) ==
    IF tagNameLower(h, el) \notin ALLOWED_HTML_TAGS
    THEN LET parent == parentElement(h, el)
             kids   == h[el].childNodes
         IN  IF parent = Null THEN h
             ELSE [i \in DOMAIN h |->
                      IF i = parent
                      THEN [h[i] EXCEPT !.childNodes = Without(@, el) \o kids]
                      ELSE IF i = el
                      THEN [h[i] EXCEPT !.childNodes = <<>>, !.parentNode = Null]
                      ELSE IF i \in Range(kids)
                      THEN [h[i] EXCEPT !.parentNode = parent]
                      ELSE h[i]]
    ELSE h

\* the callback of step 4 for one element
unwrap(h, el) ==
    IF tagNameLower(h, el) \notin ALLOWED_HTML_TAGS
    THEN LET parent == parentElement(h, el)
         IN  IF parent = Null THEN h
             ELSE removeChild(moveChildrenBefore(h, parent, el), parent, el)
    ELSE h

\* 4) unwrap the elements whose tag is not an allowed HTML tag
unwrapCustom(h, r) ==
    forEach(h, querySelectorAllStar(h, r), LAMBDA h1, el : unwrap(h1, el))

\* stripDataUri testing the src without trimming it
stripDataUriUntrimmed(h, img) ==
    LET src == getAttributeOrEmpty(h, img, <<"s","r","c">>)
    IN  IF src # <<>> /\ startsWith(toLowerCase(src), <<"d","a","t","a",":">>)
        THEN setAttribute(h, img, <<"s","r","c">>, <<>>)
        ELSE h

\* the callback of step 5 for one img
stripDataUri(h, img) ==
    LET src    == getAttributeOrEmpty(h, img, <<"s","r","c">>)
        h1     == IF src # <<>> /\ startsWith(toLowerCase(trim(src)), <<"d","a","t","a",":">>)
                  THEN setAttribute(h, img, <<"s","r","c">>, <<>>)
                  ELSE h
        srcset == getAttributeOrEmpty(h1, img, <<"s","r","c","s","e","t">>)
    IN  IF srcset # <<>> /\ includes(toLowerCase(srcset), <<"d","a","t","a",":">>)
        THEN LET raw      == split(srcset, ",")
                 parts    == [i \in DOMAIN raw |-> trim(raw[i])]
                 filtered == SelectSeq(parts,
                                 LAMBDA p : ~startsWith(toLowerCase(p), <<"d","a","t","a",":">>))
             IN  setAttribute(h1, img, <<"s","r","c","s","e","t">>, join(filtered, <<","," ">>))
        ELSE h1

\* 5) strip data URIs from the src and srcset of every img
stripDataUris(h, r) ==
    forEach(h, querySelectorAll(h, r, {<<"i","m","g">>}), LAMBDA h1, img : stripDataUri(h1, img))

\* parseStyleAttr: the declarations of a style attribute, key -> value, a later
\* declaration of a key replacing an earlier one
RECURSIVE parseStyleItems(_, _, _)
parseStyleItems(items, i, styles) ==
    IF i > Len(items) THEN styles
    ELSE LET item == items[i]
             idx  == indexOf(item, ":")
             k    == toLowerCase(trim(SubSeq(item, 1, idx)))
             v    == toLowerCase(trim(SubSeq(item, idx + 2, Len(item))))
         IN  IF idx # -1 /\ k # <<>>
             THEN parseStyleItems(items, i + 1,
                      [key \in DOMAIN styles \cup {k} |-> IF key = k THEN v ELSE styles[key]])
             ELSE parseStyleItems(items, i + 1, styles)

parseStyleAttr(styleValue) == parseStyleItems(split(styleValue, ";"), 1, <<>>)

hasHiddenFlag(h, el) ==
    \/ hasAttribute(h, el, <<"h","i","d","d","e","n">>)
    \/ LET aria == toLowerCase(trim(getAttributeOrEmpty(h, el, <<"a","r","i","a","-","h","i","d","d","e","n">>)))
       IN  aria = <<"t","r","u","e">> \/ aria = <<"1">> \/ aria = <<"y","e","s">>
    \/ /\ tagNameLower(h, el) = <<"i","n","p","u","t">>
       /\ toLowerCase(trim(getAttributeOrEmpty(h, el, <<"t","y","p","e">>))) = <<"h","i","d","d","e","n">>
    \/ LET style == getAttributeOrEmpty(h, el, <<"s","t","y","l","e">>)
       IN  /\ style # <<>>
           /\ LET s == parseStyleAttr(style)
              IN  \/ /\ <<"d","i","s","p","l","a","y">> \in DOMAIN s
                     /\ s[<<"d","i","s","p","l","a","y">>] # <<>>
                     /\ includes(s[<<"d","i","s","p","l","a","y">>], <<"n","o","n","e">>)
                  \/ /\ <<"v","i","s","i","b","i","l","i","t","y">> \in DOMAIN s
                     /\ s[<<"v","i","s","i","b","i","l","i","t","y">>] # <<>>
                     /\ includes(s[<<"v","i","s","i","b","i","l","i","t","y">>], <<"h","i","d","d","e","n">>)
                  \/ /\ <<"o","p","a","c","i","t","y">> \in DOMAIN s
                     /\ startsWith(trim(s[<<"o","p","a","c","i","t","y">>]), <<"0">>)

\* 6) pruneHidden(node, hiddenUpstream)
RECURSIVE pruneHidden(_, _, _)
pruneHidden(h, node, hiddenUpstream) ==
    forEach(h, children(h, node),
            LAMBDA h1, child :
                LET hidden == hiddenUpstream \/ hasHiddenFlag(h1, child)
                IN  IF hidden THEN removeFromParentElement(h1, child)
                    ELSE pruneHidden(h1, child, hidden))

\* stripAttrsOf consulting the allow-list before the on* test
stripAttrsOfAllowFirst(h, el, o) ==
    LET allowed == KEEP(o) \cup tagAllow(tagNameLower(h, el))
    IN  forEach(h, getAttributeNames(h, el),
                LAMBDA h1, attr :
                    LET al == toLowerCase(attr)
                    IN  IF al \in allowed THEN h1
                        ELSE IF startsWith(al, <<"o","n">>) THEN removeAttribute(h1, el, attr)
                        ELSE IF al = <<"s","t","y","l","e">> /\ ~o.keepStyle THEN removeAttribute(h1, el, attr)
                        ELSE IF ~o.dropDataAttrs /\ startsWith(al, <<"d","a","t","a","-">>) THEN h1
                        ELSE IF ~o.dropAriaAttrs /\ startsWith(al, <<"a","r","i","a","-">>) THEN h1
                        ELSE removeAttribute(h1, el, attr))

\* the callback of step 7 for one element
stripAttrsOf(h, el, o) ==
    LET allowed == KEEP(o) \cup tagAllow(tagNameLower(h, el))
    IN  forEach(h, getAttributeNames(h, el),
                LAMBDA h1, attr :
                    LET al == toLowerCase(attr)
                    IN  IF startsWith(al, <<"o","n">>) THEN removeAttribute(h1, el, attr)
                        ELSE IF al = <<"s","t","y","l","e">> /\ ~o.keepStyle THEN removeAttribute(h1, el, attr)
                        ELSE IF al \in allowed THEN h1
                        ELSE IF ~o.dropDataAttrs /\ startsWith(al, <<"d","a","t","a","-">>) THEN h1
                        ELSE IF ~o.dropAriaAttrs /\ startsWith(al, <<"a","r","i","a","-">>) THEN h1
                        ELSE removeAttribute(h1, el, attr))

\* 7) the attribute stripping pass, when opts.stripAttrs
stripAttrs(h, r, o) ==
    IF o.stripAttrs
    THEN forEach(h, querySelectorAllStar(h, r), LAMBDA h1, el : stripAttrsOf(h1, el, o))
    ELSE h

\* Array.from(INTER).join(',')
interSelector(o) ==
    join([i \in DOMAIN o.interactiveTags |-> toLowerCase(o.interactiveTags[i])], <<",">>)

hasDirectText(h, el) ==
    \E k \in DOMAIN h[el].childNodes :
        LET n == h[el].childNodes[k]
        IN  h[n].nodeType = TEXT_NODE /\ trim(h[n].data) # <<>>

\* shouldKeep without the id test
shouldKeepIgnoringId(h, el, o) ==
    \/ tagNameLower(h, el) \in INTER(o)
    \/ hasDirectText(h, el)
    \/ interSelector(o) # <<>> /\ querySelectorAll(h, el, INTER(o)) # <<>>

\* shouldKeep without the search for an interactive descendant
shouldKeepOwnMerits(h, el, o) ==
    \/ tagNameLower(h, el) \in INTER(o)
    \/ trim(getAttributeOrEmpty(h, el, <<"i","d">>)) # <<>>
    \/ hasDirectText(h, el)

shouldKeep(h, el, o) ==
    \/ tagNameLower(h, el) \in INTER(o)
    \/ trim(getAttributeOrEmpty(h, el, <<"i","d">>)) # <<>>
    \/ hasDirectText(h, el)
    \/ interSelector(o) # <<>> /\ querySelectorAll(h, el, INTER(o)) # <<>>

\* prune(node): the heap after the call and the value it returns
RECURSIVE prune(_, _, _)
prune(h, node, o) ==
    LET h1   == forEach(h, children(h, node),
                        LAMBDA hh, child :
                            LET r == prune(hh, child, o)
                            IN  IF ~r.keep THEN removeFromParentElement(r.heap, child)
                                ELSE r.heap)
        h2   == forEach(h1, h1[node].childNodes,
                        LAMBDA hh, t :
                            IF hh[t].nodeType = TEXT_NODE /\ trim(hh[t].data) = <<>>
                            THEN removeFromParentNode(hh, t)
                            ELSE hh)
        name == tagNameLower(h2, node)
    IN  [heap |-> h2,
         keep |-> IF name = <<"h","t","m","l">> \/ name = <<"b","o","d","y">> THEN TRUE ELSE shouldKeep(h2, node, o)]

\* 8) the relevance pruning pass, when opts.relevantOnly
pruneRelevant(h, r, o) == IF o.relevantOnly THEN prune(h, r, o).heap ELSE h

-----------------------------------------------------------------------------
(* 9) The serializer *)

\* s.replace(/c/g, rep) for a one-character pattern
RECURSIVE replaceAll(_, _, _)
replaceAll(s, c, rep) ==
    IF s = <<>> THEN <<>>
    ELSE (IF Head(s) = c THEN rep ELSE <<Head(s)>>) \o replaceAll(Tail(s), c, rep)

q(s) ==
    <<"\"">>
    \o replaceAll(replaceAll(replaceAll(replaceAll(s, "\\", <<"\\", "\\">>),
                                        "\"", <<"\\", "\"">>),
                             "\n", <<"\\", "n">>),
                  "\t", <<"\\", "t">>)
    \o <<"\"">>

normText(s) == join(SplitSpaces(s), <<" ">>)

\* ' '.repeat(n)
repeatSpace(n) == [i \in 1..n |-> " "]

\* the keep-set of the serializer
keepAttrs(o) ==
    IF KEEP(o) # {} THEN KEEP(o)
    ELSE {<<"i","d">>, <<"c","l","a","s","s">>, <<"n","a","m","e">>, <<"h","r","e","f">>, <<"s","r","c">>, <<"s","r","c","s","e","t">>, <<"f","o","r">>, <<"v","a","l","u","e">>, <<"t","y","p","e">>, <<"r","o","l","e">>}

\* acc.sort((a,b) => a[0] < b[0] ? -1 : a[0] > b[0] ? 1 : 0), a stable sort
RECURSIVE sortByKey(_)
sortByKey(acc) ==
    IF acc = <<>> THEN <<>>
    ELSE LET rest == sortByKey(SubSeq(acc, 1, Len(acc) - 1))
             x    == acc[Len(acc)]
             pos  == Cardinality({i \in DOMAIN rest : ~StrLess(x[1], rest[i][1])})
         IN  SubSeq(rest, 1, pos) \o <<x>> \o SubSeq(rest, pos + 1, Len(rest))

\* the loop of attrItems over el.getAttributeNames(), from the i-th name on
RECURSIVE attrItemsFrom(_, _, _, _)
attrItemsFrom(h, el, o, i) ==
    LET names == getAttributeNames(h, el)
    IN  IF i > Len(names) THEN <<>>
        ELSE LET attr == names[i]
                 k    == toLowerCase(attr)
                 skip == \/ o.cssHead /\ k = <<"c","l","a","s","s">>
                         \/ /\ o.cssHead /\ o.includeIdInHead /\ k = <<"i","d">>
                            /\ trim(getAttributeOrEmpty(h, el, <<"i","d">>)) # <<>>
                         \/ k \notin keepAttrs(o)
                 v    == getAttributeOrEmpty(h, el, attr)
             IN  (IF skip THEN <<>> ELSE << <<k, v>> >>) \o attrItemsFrom(h, el, o, i + 1)

\* attrItems without the final sort
attrItemsUnsorted(h, el, o) == attrItemsFrom(h, el, o, 1)

attrItems(h, el, o) == sortByKey(attrItemsFrom(h, el, o, 1))

\* cls.split(/\s+/).filter(Boolean).map(c => '.' + c).join('')
RECURSIVE classSuffix(_)
classSuffix(tokens) ==
    IF tokens = <<>> THEN <<>> ELSE <<".">> \o Head(tokens) \o classSuffix(Tail(tokens))

\* headToken that never drops the tag name of a div
headTokenWithDiv(h, el, o) ==
    LET name == tagNameLower(h, el)
        id   == trim(getAttributeOrEmpty(h, el, <<"i","d">>))
        cls  == trim(getAttributeOrEmpty(h, el, <<"c","l","a","s","s">>))
    IN  name \o (IF id # <<>> THEN <<"#">> \o id ELSE <<>>)
             \o (IF cls # <<>> THEN classSuffix(SplitSpaces(cls)) ELSE <<>>)

\* headToken without the fallback to 'div' for an empty token
headTokenNoFallback(h, el, o) ==
    IF ~o.cssHead THEN tagNameLower(h, el)
    ELSE LET name   == tagNameLower(h, el)
             base   == IF name = <<"d","i","v">> THEN <<>>
                       ELSE IF name = <<"s","p","a","n">>
                            THEN (IF o.spanAlias # <<>> THEN o.spanAlias ELSE <<"s","p">>)
                            ELSE name
             id     == trim(getAttributeOrEmpty(h, el, <<"i","d">>))
             cls    == trim(getAttributeOrEmpty(h, el, <<"c","l","a","s","s">>))
             token1 == IF o.includeIdInHead /\ id # <<>> THEN base \o <<"#">> \o id ELSE base
         IN  IF cls # <<>> THEN token1 \o classSuffix(SplitSpaces(cls)) ELSE token1

headToken(h, el, o) ==
    IF ~o.cssHead THEN tagNameLower(h, el)
    ELSE LET name   == tagNameLower(h, el)
             base   == IF name = <<"d","i","v">> THEN <<>>
                       ELSE IF name = <<"s","p","a","n">>
                            THEN (IF o.spanAlias # <<>> THEN o.spanAlias ELSE <<"s","p">>)
                            ELSE name
             id     == trim(getAttributeOrEmpty(h, el, <<"i","d">>))
             cls    == trim(getAttributeOrEmpty(h, el, <<"c","l","a","s","s">>))
             token1 == IF o.includeIdInHead /\ id # <<>> THEN base \o <<"#">> \o id ELSE base
             token2 == IF cls # <<>> THEN token1 \o classSuffix(SplitSpaces(cls)) ELSE token1
         IN  IF token2 = <<>> THEN <<"d","i","v">> ELSE token2

\* attrs.map(([k,v]) => ':' + k + ' ' + q(v))
attrPairs(attrs) == [i \in DOMAIN attrs |-> <<":">> \o attrs[i][1] \o <<" ">> \o q(attrs[i][2])]

RECURSIVE emit(_, _, _, _)
emit(h, node, depth, o) ==
    LET pad == IF o.pretty THEN repeatSpace(o.indent * depth) ELSE <<>>
    IN  IF h[node].nodeType = TEXT_NODE
        THEN LET txt == normText(h[node].data)
             IN  IF trim(txt) = <<>> THEN <<>> ELSE pad \o q(txt)
        ELSE IF h[node].nodeType = ELEMENT_NODE
        THEN LET attrs == attrItems(h, node, o)
                 out   == pad \o <<"(">> \o headToken(h, node, o)
                          \o (IF o.attrMap /\ attrs # <<>>
                              THEN <<" ">> \o <<"{">> \o join(attrPairs(attrs), <<" ">>) \o <<"}">>
                              ELSE join([i \in DOMAIN attrs |-> <<" ">> \o attrPairs(attrs)[i]],
                                        <<>>))
                 kids  == h[node].childNodes
                 all   == [i \in DOMAIN kids |-> emit(h, kids[i], depth + 1, o)]
                 frags == SelectSeq(all, LAMBDA f : f # <<>>)
             IN  IF frags = <<>> THEN out \o <<")">>
                 ELSE IF o.pretty
                      THEN out \o <<"\n">> \o join(frags, <<"\n">>) \o <<"\n">> \o pad \o <<")">>
                      ELSE out \o <<" ">> \o join(frags, <<" ">>) \o <<")">>
        ELSE <<>>

-----------------------------------------------------------------------------
(* Input documents *)

Attr(name, value) == [name |-> name, value |-> value]

ElementNode(tag, attrs) ==
    [nodeType |-> ELEMENT_NODE, tagName |-> tag, attrs |-> attrs,
     childNodes |-> <<>>, parentNode |-> Null, data |-> <<>>]

TextNode(data) ==
    [nodeType |-> TEXT_NODE, tagName |-> <<>>, attrs |-> <<>>,
     childNodes |-> <<>>, parentNode |-> Null, data |-> data]

CommentNode(data) ==
    [nodeType |-> COMMENT_NODE, tagName |-> <<>>, attrs |-> <<>>,
     childNodes |-> <<>>, parentNode |-> Null, data |-> data]

\* The document whose root <html> is node 1 and whose node i + 1 is spec[i].n,
\* a child of node spec[i].p; siblings are in the order of their ids.
Build(spec) ==
    LET n        == Len(spec) + 1
        node(i)  == IF i = 1 THEN ElementNode(<<"H","T","M","L">>, <<>>) ELSE spec[i - 1].n
        par(i)   == IF i = 1 THEN Null ELSE spec[i - 1].p
        kids(i)  == SelectSeq([j \in 1..n |-> j], LAMBDA j : par(j) = i)
    IN  [i \in 1..n |-> [node(i) EXCEPT !.childNodes = kids(i), !.parentNode = par(i)]]

Body == ElementNode(<<"B","O","D","Y">>, <<>>)

\* the nodes a generated document is made of
Palette ==
    { ElementNode(<<"D","I","V">>, <<>>),
      ElementNode(<<"D","I","V">>, <<Attr(<<"s","t","y","l","e">>, <<"c","o","l","o","r",":"," ","r","e","d">>), Attr(<<"o","n","c","l","i","c","k">>, <<"f","(",")">>),
                           Attr(<<"i","d">>, <<"x">>), Attr(<<"d","a","t","a","-","f","o","o">>, <<"1">>)>>),
      ElementNode(<<"B","U","T","T","O","N">>, <<>>),
      ElementNode(<<"X","-","F","O","O">>, <<Attr(<<"h","i","d","d","e","n">>, <<>>)>>),
      ElementNode(<<"S","C","R","I","P","T">>, <<>>),
      TextNode(<<"G","o">>),
      ElementNode(<<"I","M","G">>, <<Attr(<<"s","r","c">>, <<" ","D","a","t","a",":","i","m","a","g","e","/","p","n","g",";","b","a","s","e","6","4",",","A","A","A","A">>), Attr(<<"i","d">>, <<"i">>)>>) }

\* a node the parser gives no children: text, comments and the void element img
IsLeaf(n) == n.nodeType # ELEMENT_NODE \/ n.tagName = <<"I","M","G">>

\* the documents with <body> and at most k nodes below it
RECURSIVE GenSpecs(_)
GenSpecs(k) ==
    IF k = 0 THEN { <<[p |-> 1, n |-> Body]>> }
    ELSE LET smaller == GenSpecs(k - 1)
             full    == {s \in smaller : Len(s) = k}
             places  == {x \in full \X (2..(k + 1)) : ~IsLeaf(x[1][x[2] - 1].n)}
         IN  smaller \cup {Append(x[1], [p |-> x[2], n |-> t]) : x \in places, t \in Palette}

GeneratedDocs == {Build(s) : s \in GenSpecs(MaxNodes)}

\* <div id="x"><button>Go</button></div>, as the HTML parser builds it
MinimalDoc ==
    Build(<< [p |-> 1, n |-> ElementNode(<<"H","E","A","D">>, <<>>)],
             [p |-> 1, n |-> Body],
             [p |-> 3, n |-> ElementNode(<<"D","I","V">>, <<Attr(<<"i","d">>, <<"x">>)>>)],
             [p |-> 4, n |-> ElementNode(<<"B","U","T","T","O","N">>, <<>>)],
             [p |-> 5, n |-> TextNode(<<"G","o">>)] >>)

\* a page with a comment, a namespaced element, a custom element around a
\* button, hidden controls and attributes of every class the reducer knows
SampleDoc ==
    Build(<< [p |-> 1, n |-> Body],
             [p |-> 2, n |-> CommentNode(<<" ","b","a","n","n","e","r"," ">>)],
             [p |-> 2, n |-> ElementNode(<<"F","B",":","L","I","K","E">>, <<>>)],
             [p |-> 4, n |-> ElementNode(<<"B","U","T","T","O","N">>, <<Attr(<<"i","d">>, <<"l","i","k","e">>)>>)],
             [p |-> 2, n |-> ElementNode(<<"X","-","P","A","N","E","L">>, <<Attr(<<"c","l","a","s","s">>, <<"c","a","r","d">>)>>)],
             [p |-> 6, n |-> ElementNode(<<"B","U","T","T","O","N">>, <<Attr(<<"t","y","p","e">>, <<"s","u","b","m","i","t">>), Attr(<<"i","d">>, <<"b","1">>)>>)],
             [p |-> 7, n |-> TextNode(<<" "," ","S","a","y"," ","\"","h","i","\"","\n","\t","n","o","w"," ">>)],
             [p |-> 2, n |-> ElementNode(<<"S","P","A","N">>, <<Attr(<<"t","i","t","l","e">>, <<"t">>), Attr(<<"c","l","a","s","s">>, <<" ","b"," "," ","a"," ">>),
                                                  Attr(<<"a","r","i","a","-","l","a","b","e","l">>, <<"l">>), Attr(<<"d","a","t","a","-","k">>, <<"v">>),
                                                  Attr(<<"s","t","y","l","e">>, <<"o","p","a","c","i","t","y",":"," ","1">>)>>)],
             [p |-> 9, n |-> TextNode(<<"h","i">>)],
             [p |-> 2, n |-> ElementNode(<<"I","N","P","U","T">>, <<Attr(<<"t","y","p","e">>, <<" ","H","i","d","d","e","n"," ">>), Attr(<<"n","a","m","e">>, <<"t","o","k">>)>>)],
             [p |-> 2, n |-> ElementNode(<<"A">>, <<Attr(<<"s","r","c","s","e","t">>, <<"s">>), Attr(<<"h","r","e","f">>, <<"/","p","?","a","=","1">>),
                                               Attr(<<"a","r","i","a","-","h","i","d","d","e","n">>, <<"f","a","l","s","e">>), Attr(<<"i","d">>, <<" ">>)>>)],
             [p |-> 12, n |-> ElementNode(<<"I","M","G">>, <<Attr(<<"s","r","c","s","e","t">>, <<"a",".","p","n","g"," ","1","x",","," ","D","A","T","A",":","x"," ","2","x",",","b",".","p","n","g"," ","3","x">>),
                                                  Attr(<<"s","r","c">>, <<"d","a","t","a",":","i","m","a","g","e","/","p","n","g",";","b","a","s","e","6","4",",","A","A","A","A">>)>>)] >>)

\* a page with a hidden container, blank text, a decorative container and
\* two images without an id
HiddenDoc ==
    Build(<< [p |-> 1, n |-> Body],
             [p |-> 2, n |-> ElementNode(<<"D","I","V">>, <<Attr(<<"s","t","y","l","e">>, <<"c","o","l","o","r",":","r","e","d",";"," ","D","I","S","P","L","A","Y"," ",":"," ","N","o","n","e">>)>>)],
             [p |-> 3, n |-> ElementNode(<<"B","U","T","T","O","N">>, <<Attr(<<"i","d">>, <<"b">>)>>)],
             [p |-> 4, n |-> TextNode(<<"G","o">>)],
             [p |-> 2, n |-> TextNode(<<" ","\n">>)],
             [p |-> 2, n |-> ElementNode(<<"I","M","G">>, <<Attr(<<"s","r","c">>, <<"h","t","t","p","s",":","/","/","x","/","y",".","p","n","g">>)>>)],
             [p |-> 2, n |-> ElementNode(<<"D","I","V">>, <<>>)],
             [p |-> 8, n |-> TextNode(<<"\t"," ">>)],
             [p |-> 8, n |-> ElementNode(<<"I","M","G">>, <<Attr(<<"s","r","c">>, <<"d","a","t","a",":","i","m","a","g","e","/","p","n","g",";","b","a","s","e","6","4",",","A","A","A","A">>)>>)],
             [p |-> 2, n |-> ElementNode(<<"P">>, <<Attr(<<"a","r","i","a","-","h","i","d","d","e","n">>, <<" ","Y","E","S"," ">>)>>)],
             [p |-> 11, n |-> ElementNode(<<"A">>, <<Attr(<<"h","r","e","f">>, <<"/","h">>)>>)] >>)

\* a page whose elements, the root included, carry attributes of every class
\* the reducer tells apart
AttrDoc ==
    LET d == Build(<< [p |-> 1, n |-> Body],
                      [p |-> 2, n |-> ElementNode(<<"D","I","V">>, <<Attr(<<"o","n","c","l","i","c","k">>, <<"f","(",")">>), Attr(<<"s","t","y","l","e">>, <<"c","o","l","o","r",":"," ","r","e","d">>),
                                                           Attr(<<"d","a","t","a","-","f","o","o">>, <<"1">>), Attr(<<"a","r","i","a","-","l","a","b","e","l">>, <<"l">>),
                                                           Attr(<<"i","d">>, <<"x">>), Attr(<<"t","i","t","l","e">>, <<"t">>),
                                                           Attr(<<"c","l","a","s","s">>, <<"c">>)>>)],
                      [p |-> 3, n |-> ElementNode(<<"A">>, <<Attr(<<"o","n","m","o","u","s","e","o","v","e","r">>, <<"g","(",")">>), Attr(<<"h","r","e","f">>, <<"/","p">>),
                                                         Attr(<<"n","a","m","e">>, <<"n">>), Attr(<<"d","a","t","a","b","a","s","e">>, <<"d">>)>>)],
                      [p |-> 3, n |-> ElementNode(<<"I","N","P","U","T">>, <<Attr(<<"v","a","l","u","e">>, <<"v">>), Attr(<<"o","n","l","y">>, <<"1">>),
                                                             Attr(<<"t","y","p","e">>, <<"t","e","x","t">>), Attr(<<"a","r","i","a","-","b","u","s","y">>, <<"t","r","u","e">>),
                                                             Attr(<<"s","t","y","l","e">>, <<>>), Attr(<<"n","a","m","e">>, <<"q">>)>>)] >>)
    IN  [d EXCEPT ![documentElement].attrs = <<Attr(<<"o","n","l","o","a","d">>, <<"h","(",")">>), Attr(<<"l","a","n","g">>, <<"e","n">>)>>]

\* a page whose elements have ids and classes in every combination the head
\* token tells apart
HeadDoc ==
    Build(<< [p |-> 1, n |-> Body],
             [p |-> 2, n |-> ElementNode(<<"D","I","V">>, <<Attr(<<"c","l","a","s","s">>, <<" ","b"," "," ","a"," ">>)>>)],
             [p |-> 3, n |-> TextNode(<<"t">>)],
             [p |-> 2, n |-> ElementNode(<<"D","I","V">>, <<Attr(<<"c","l","a","s","s">>, <<" ">>), Attr(<<"i","d">>, <<>>)>>)],
             [p |-> 5, n |-> ElementNode(<<"B","U","T","T","O","N">>, <<Attr(<<"c","l","a","s","s">>, <<"g","o">>)>>)],
             [p |-> 2, n |-> ElementNode(<<"S","P","A","N">>, <<Attr(<<"i","d">>, <<"s">>), Attr(<<"c","l","a","s","s">>, <<"c">>)>>)],
             [p |-> 2, n |-> ElementNode(<<"D","I","V">>, <<Attr(<<"c","l","a","s","s">>, <<"z"," ","y">>), Attr(<<"i","d">>, <<" ","k"," ">>)>>)],
             [p |-> 2, n |-> ElementNode(<<"S","P","A","N">>, <<>>)],
             [p |-> 9, n |-> TextNode(<<"t">>)] >>)

Documents == GeneratedDocs \cup {MinimalDoc, SampleDoc, HiddenDoc, HeadDoc}

\* option records other than the constant one: the callback is a function of opts
OptionSets ==
    { [Options EXCEPT !.keepAttrs = k, !.stripAttrs = st, !.dropDataAttrs = d,
                      !.dropAriaAttrs = a, !.keepStyle = s] :
          k \in { Options.keepAttrs, <<<<"o","n","c","l","i","c","k">>, <<"S","t","y","l","e">>, <<"t","i","t","l","e">>>>, <<>> },
          st \in BOOLEAN, d \in BOOLEAN, a \in BOOLEAN, s \in BOOLEAN }

-----------------------------------------------------------------------------
(* The tool call: handleToolCall(name, args, state, server) *)

\* JavaScript values: undefined, a string, a number (a natural number, held as
\* the decimal digits String(n) spells)
Undefined == [type |-> "undefined", value |-> <<>>]

String(s) == [type |-> "string", value |-> s]

Number(n) == [type |-> "number", value |-> NumStr(n)]

\* the promise handleToolCall returned: pending, resolved to a CallToolResult
\* {content, isError}, or rejected with an error message
Pending == [state |-> "pending", isError |-> FALSE, content |-> <<>>]

Resolved(isError, content) == [state |-> "resolved", isError |-> isError, content |-> content]

Rejected(message) == [state |-> "rejected", isError |-> TRUE, content |-> message]

\* content items
TextContent(text) == [type |-> "text", text |-> text]

ImageContent(data) == [type |-> "image", text |-> data]

\* the arguments of a call; a tool reads only its own
Args(tool) ==
    [tool |-> tool, name |-> <<>>, selector |-> Undefined, filepass |-> Undefined,
     width |-> Undefined, script |-> <<>>]

\* nothing stat-ed yet
NoStat == [threw |-> FALSE, isFile |-> FALSE, size |-> 0]

\* the process environment: the variables the code reads (undefined when
\* unset) and the uid process.getuid() reports (undefined where there is no
\* process.getuid)
Env(workspace, ci, actions, display, uid) ==
    [GITHUB_WORKSPACE |-> workspace, CI |-> ci, GITHUB_ACTIONS |-> actions,
     DISPLAY |-> display, uid |-> uid]

NoEnv == Env(Undefined, Undefined, Undefined, Undefined, Undefined)

\* state.screenshots and the notifications sent, together
Snapshot(s, n) == [screenshots |-> s, notifications |-> n]

\* the state the handlers a specification is not about leave alone
HandlersIdle ==
    /\ screenshots = <<>>
    /\ notifications = 0
    /\ file = "missing"
    /\ screenshot = Undefined
    /\ lastStat = NoStat
    /\ atCall = Snapshot(<<>>, 0)
    /\ listeners = <<>>
    /\ logs = <<>>
    /\ env = NoEnv
    /\ npxArgs = <<>>

\* one call of puppeteer_get_compact_page_representation, its page obtained
CompactCall ==
    /\ args = Args("puppeteer_get_compact_page_representation")
    /\ result = Pending
    /\ calls = 1

-----------------------------------------------------------------------------
(* The callback handed to page.evaluate, stage by stage *)

\* no result yet
NoResult == <<>>

Init ==
    /\ heap \in Documents
    /\ root = Null
    /\ pc = "clone"
    /\ opts = Options
    /\ sexpr = NoResult
    /\ CompactCall
    /\ HandlersIdle

CloneRoot ==
    /\ pc = "clone"
    /\ LET c == cloneNode(heap, documentElement)
       IN  heap' = c.heap /\ root' = c.node
    /\ pc' = "removeComments"
    /\ UNCHANGED <<opts, sexpr, callVars, handlerVars>>

RemoveComments ==
    /\ pc = "removeComments"
    /\ heap' = removeComments(heap, root)
    /\ pc' = "removeTags"
    /\ UNCHANGED <<root, opts, sexpr, callVars, handlerVars>>

RemoveTags ==
    /\ pc = "removeTags"
    /\ heap' = removeTags(heap, root)
    /\ pc' = "removeNamespaced"
    /\ UNCHANGED <<root, opts, sexpr, callVars, handlerVars>>

RemoveNamespaced ==
    /\ pc = "removeNamespaced"
    /\ heap' = removeNamespaced(heap, root)
    /\ pc' = "unwrap"
    /\ UNCHANGED <<root, opts, sexpr, callVars, handlerVars>>

UnwrapCustom ==
    /\ pc = "unwrap"
    /\ heap' = unwrapCustom(heap, root)
    /\ pc' = "stripDataUris"
    /\ UNCHANGED <<root, opts, sexpr, callVars, handlerVars>>

StripDataUris ==
    /\ pc = "stripDataUris"
    /\ heap' = stripDataUris(heap, root)
    /\ pc' = "pruneHidden"
    /\ UNCHANGED <<root, opts, sexpr, callVars, handlerVars>>

PruneHidden ==
    /\ pc = "pruneHidden"
    /\ heap' = pruneHidden(heap, root, FALSE)
    /\ pc' = "stripAttrs"
    /\ UNCHANGED <<root, opts, sexpr, callVars, handlerVars>>

StripAttrs ==
    /\ pc = "stripAttrs"
    /\ heap' = stripAttrs(heap, root, opts)
    /\ pc' = "prune"
    /\ UNCHANGED <<root, opts, sexpr, callVars, handlerVars>>

PruneRelevant ==
    /\ pc = "prune"
    /\ heap' = pruneRelevant(heap, root, opts)
    /\ pc' = "serialize"
    /\ UNCHANGED <<root, opts, sexpr, callVars, handlerVars>>

Serialize ==
    /\ pc = "serialize"
    /\ sexpr' = emit(heap, root, 0, opts)
    /\ pc' = "done"
    /\ UNCHANGED <<heap, root, opts, callVars, handlerVars>>

Next ==
    \/ CloneRoot
    \/ RemoveComments
    \/ RemoveTags
    \/ RemoveNamespaced
    \/ UnwrapCustom
    \/ StripDataUris
    \/ PruneHidden
    \/ StripAttrs
    \/ PruneRelevant
    \/ Serialize

Spec == Init /\ [][Next]_vars

\* the callback applied to any options record
InitOpts ==
    /\ heap \in {AttrDoc, SampleDoc}
    /\ root = Null
    /\ pc = "clone"
    /\ opts \in OptionSets
    /\ sexpr = NoResult
    /\ CompactCall
    /\ HandlersIdle

SpecOpts == InitOpts /\ [][Next]_vars

-----------------------------------------------------------------------------
(* Vocabulary of the properties *)

\* the nodes of the live document
LiveNodes == Subtree(heap, documentElement)

\* the working copy of live node i, once the root was cloned
CloneOf(i) == i + Len(heap) \div 2

\* the nodes of the working tree
Tree == Subtree(heap, root)

\* the proper ancestors of n
RECURSIVE Ancestors(_, _)
Ancestors(h, n) ==
    IF h[n].parentNode = Null THEN {}
    ELSE {h[n].parentNode} \cup Ancestors(h, h[n].parentNode)

\* the stages that come after the given ones
After(stages) == pc \notin ({"clone"} \cup stages)

-----------------------------------------------------------------------------
(* Hidden inheritance *)

HasHiddenAncestor(i) ==
    \E a \in Ancestors(heap, i) \ {documentElement} : hasHiddenFlag(heap, a)

\* C1: every element of the input that has a self-hidden proper ancestor other
\* than the root is absent from the serialized tree, whatever the ancestor's tag
HiddenInheritance ==
    pc = "done" =>
        LET tree == Tree
        IN  \A i \in LiveNodes :
                isElement(heap, i) /\ HasHiddenAncestor(i) => CloneOf(i) \notin tree

-----------------------------------------------------------------------------
(* Relevance pruning *)

HasInteractiveDescendant(h, e) ==
    \E d \in Subtree(h, e) \ {e} :
        isElement(h, d) /\ tagNameLower(h, d) \in Range(opts.interactiveTags)

\* interactive, identified, textual, or above an interactive element
Relevant(h, e) ==
    \/ tagNameLower(h, e) \in Range(opts.interactiveTags)
    \/ trim(getAttributeOrEmpty(h, e, <<"i","d">>)) # <<>>
    \/ hasDirectText(h, e)
    \/ HasInteractiveDescendant(h, e)

\* C2: the Relevance Pruner keeps every element that has a non-empty id or a
\* direct non-whitespace text child, together with all of its ancestors
RelevanceKeepsAncestors ==
    [][pc = "prune" /\ opts.relevantOnly =>
          \A e \in Tree :
              /\ isElement(heap, e)
              /\ \/ trim(getAttributeOrEmpty(heap, e, <<"i","d">>)) # <<>>
                 \/ hasDirectText(heap, e)
              => ({e} \cup Ancestors(heap, e)) \subseteq Subtree(heap', root)]_vars

NotHtmlOrBody(h, e) == tagNameLower(h, e) \notin {<<"h","t","m","l">>, <<"b","o","d","y">>}

-----------------------------------------------------------------------------
(* The Structural Filter *)

Denylisted(h, n) == isElement(h, n) /\ tagNameLower(h, n) \in Range(REMOVE_TAGS)

InDenylistedSubtree(i) ==
    \/ Denylisted(heap, i)
    \/ \E a \in Ancestors(heap, i) \ {documentElement} : Denylisted(heap, a)

\* C4: no denylisted element other than the root, and no node below one, is in
\* the tree after the Structural Filter or in the output
TagDenylist ==
    After({"removeComments", "removeTags"}) =>
        LET tree == Tree
        IN  /\ \A i \in LiveNodes \ {documentElement} :
                   InDenylistedSubtree(i) => CloneOf(i) \notin tree
            /\ \A n \in tree \ {root} : ~Denylisted(heap, n)
            /\ \A k \in DOMAIN REMOVE_TAGS : ~includes(sexpr, <<"(">> \o REMOVE_TAGS[k])

\* a script with a child, inside a custom element, is gone from the output
TagDenylistWitness ==
    /\ pc = "done"
    /\ \E i \in LiveNodes, j \in LiveNodes :
           /\ heap[i].tagName = <<"S","C","R","I","P","T">> /\ heap[j].parentNode = i
           /\ heap[heap[i].parentNode].tagName = <<"X","-","F","O","O">>
           /\ CloneOf(i) \notin Tree /\ CloneOf(j) \notin Tree

Unknown(h, n) == isElement(h, n) /\ tagNameLower(h, n) \notin ALLOWED_HTML_TAGS

\* the nearest ancestor of n that step 4 leaves in place
RECURSIVE KnownParent(_, _, _)
KnownParent(h, r, n) ==
    LET p == h[n].parentNode
    IN  IF p = r \/ ~Unknown(h, p) THEN p ELSE KnownParent(h, r, p)

\* C5: after step 4 no element other than the root has a tag outside the
\* allowed vocabulary, and the children of every unwrapped element are in the
\* tree at its former place: the remaining nodes keep their document order
UnwrapPreservation ==
    [][pc = "unwrap" =>
          /\ \A n \in Subtree(heap', root) \ {root} : ~Unknown(heap', n)
          /\ DocOrder(heap', root) =
                 SelectSeq(DocOrder(heap, root), LAMBDA n : n = root \/ ~Unknown(heap, n))
          /\ \A n \in Subtree(heap', root) \ {root} :
                 heap'[n].parentNode = KnownParent(heap, root, n)]_vars

\* an unknown element nested in an unknown element was unwrapped and its child
\* is still in the tree
UnwrapPreservationWitness ==
    /\ pc = "stripDataUris"
    /\ \E i \in LiveNodes, j \in LiveNodes :
           /\ Unknown(heap, i) /\ heap[i].parentNode # Null
           /\ Unknown(heap, heap[i].parentNode)
           /\ heap[j].parentNode = i
           /\ CloneOf(i) \notin Tree /\ CloneOf(j) \in Tree

-----------------------------------------------------------------------------
(* The Attribute Reducer *)

\* the rule of the reducer for attribute a of element e
ReducerRemoves(h, e, a) ==
    LET al == toLowerCase(a)
    IN  \/ startsWith(al, <<"o","n">>)
        \/ al = <<"s","t","y","l","e">> /\ ~opts.keepStyle
        \/ /\ al \notin toLowerSet(opts.keepAttrs)
           /\ al \notin tagAllow(tagNameLower(h, e))
           /\ ~(startsWith(al, <<"d","a","t","a","-">>) /\ ~opts.dropDataAttrs)
           /\ ~(startsWith(al, <<"a","r","i","a","-">>) /\ ~opts.dropAriaAttrs)

\* C6: with stripAttrs, the reducer removes an attribute of an element other
\* than the root exactly when its name starts with on, or it is style and
\* keepStyle is false, or it is in no allow-list and is neither a data-
\* attribute kept by dropDataAttrs false nor an aria- attribute kept by
\* dropAriaAttrs false; what it keeps keeps its value
AttributeReducerDecision ==
    [][pc = "stripAttrs" /\ opts.stripAttrs =>
          \A e \in Tree \ {root} :
              isElement(heap, e) =>
                  \A a \in Range(getAttributeNames(heap, e)) :
                      /\ ~hasAttribute(heap', e, a) <=> ReducerRemoves(heap, e, a)
                      /\ hasAttribute(heap', e, a) =>
                             getAttributeOrEmpty(heap', e, a) = getAttributeOrEmpty(heap, e, a)]_vars

\* onclick was removed although keepAttrs lists it, and data-foo was removed
\* because dropDataAttrs is true
AttributeReducerDecisionWitness ==
    /\ pc = "prune"
    /\ opts.stripAttrs /\ opts.dropDataAttrs
    /\ <<"o","n","c","l","i","c","k">> \in toLowerSet(opts.keepAttrs)
    /\ \E i \in LiveNodes :
           /\ hasAttribute(heap, i, <<"o","n","c","l","i","c","k">>) /\ hasAttribute(heap, i, <<"d","a","t","a","-","f","o","o">>)
           /\ CloneOf(i) \in Tree
           /\ ~hasAttribute(heap, CloneOf(i), <<"o","n","c","l","i","c","k">>)
           /\ ~hasAttribute(heap, CloneOf(i), <<"d","a","t","a","-","f","o","o">>)
           /\ hasAttribute(heap, CloneOf(i), <<"t","i","t","l","e">>)

\* C7: when keepStyle is true the Attribute Reducer removes the style
\* attribute of no surviving element
KeepStyleKeepsStyle ==
    [][pc = "stripAttrs" /\ opts.keepStyle =>
          \A e \in Tree \ {root} :
              isElement(heap, e) /\ hasAttribute(heap, e, <<"s","t","y","l","e">>) =>
                  hasAttribute(heap', e, <<"s","t","y","l","e">>)]_vars

-----------------------------------------------------------------------------
(* The minimal document *)

\* the page is the minimal document
IsMinimalDoc ==
    Len(heap) = 2 * Len(MinimalDoc) /\ SubSeq(heap, 1, Len(MinimalDoc)) = MinimalDoc

\* the div of the minimal document, in the working tree
MinimalDiv == CloneOf(4)

\* C8 as stated: the minimal document serializes to exactly (#x (button "Go"))
MinimalDocumentExact ==
    pc = "done" /\ IsMinimalDoc => Str(sexpr) = "(#x (button \"Go\"))"

\* C8, amended: the minimal document serializes to exactly
\* (html (body (#x (button "Go")))), in which its div is (#x (button "Go"))
MinimalDocument ==
    pc = "done" /\ IsMinimalDoc =>
        /\ Str(sexpr) = "(html (body (#x (button \"Go\"))))"
        /\ Str(emit(heap, MinimalDiv, 0, opts)) = "(#x (button \"Go\"))"

MinimalDocumentWitness ==
    pc = "done" /\ IsMinimalDoc /\ opts = Options /\ MinimalDiv \in Tree

-----------------------------------------------------------------------------
(* Data URIs *)

IsImg(h, n) == isElement(h, n) /\ tagNameLower(h, n) = <<"i","m","g">>

BeginsWithData(src) == startsWith(toLowerCase(trim(src)), <<"d","a","t","a",":">>)

\* the src of the working copy of live img i is what the claim says
SrcAsClaimed(i) ==
    IF BeginsWithData(getAttributeOrEmpty(heap, i, <<"s","r","c">>))
    THEN /\ hasAttribute(heap, CloneOf(i), <<"s","r","c">>)
         /\ getAttributeOrEmpty(heap, CloneOf(i), <<"s","r","c">>) = <<>>
    ELSE /\ hasAttribute(heap, CloneOf(i), <<"s","r","c">>) <=> hasAttribute(heap, i, <<"s","r","c">>)
         /\ getAttributeOrEmpty(heap, CloneOf(i), <<"s","r","c">>) = getAttributeOrEmpty(heap, i, <<"s","r","c">>)

\* C9 as stated: the output contains every img of the input, with src empty if
\* it began with data: and unchanged otherwise
DataUriStrippingAll ==
    pc = "done" =>
        LET tree == Tree
        IN  \A i \in LiveNodes : IsImg(heap, i) => CloneOf(i) \in tree /\ SrcAsClaimed(i)

\* C9, amended: every img of the input that is still in the tree after step 5,
\* and so every img the output contains, has src empty if it began with data:
\* and unchanged otherwise, and the output shows that src
DataUriStripping ==
    After({"removeComments", "removeTags", "removeNamespaced", "unwrap", "stripDataUris"}) =>
        LET tree == Tree
        IN  \A i \in LiveNodes :
                IsImg(heap, i) /\ CloneOf(i) \in tree =>
                    /\ SrcAsClaimed(i)
                    /\ pc = "done" /\ hasAttribute(heap, i, <<"s","r","c">>) =>
                           includes(sexpr,
                                    <<":","s","r","c"," ">> \o q(getAttributeOrEmpty(heap, CloneOf(i), <<"s","r","c">>)))

\* an img whose src begins with data: after a blank, in upper case, is in the
\* output with an empty src
DataUriStrippingWitness ==
    /\ pc = "done"
    /\ \E i \in LiveNodes :
           /\ IsImg(heap, i) /\ CloneOf(i) \in Tree
           /\ BeginsWithData(getAttributeOrEmpty(heap, i, <<"s","r","c">>))
           /\ ~startsWith(getAttributeOrEmpty(heap, i, <<"s","r","c">>), <<"d","a","t","a",":">>)
           /\ includes(sexpr, <<"(","i","m","g","#","i"," ","{",":","s","r","c"," ","\"","\"","}",")">>)

-----------------------------------------------------------------------------
(* The live document *)

\* C10: no stage changes a node of the live document: every removal, unwrap,
\* attribute change and text deletion acts on the detached clone
LiveDocumentUntouched ==
    [][\A i \in LiveNodes : heap'[i] = heap[i]]_vars

\* the clone lost a node and an attribute that the live document still has
LiveDocumentUntouchedWitness ==
    /\ pc = "done"
    /\ root # documentElement /\ heap[root].parentNode = Null
    /\ \E i \in LiveNodes : CloneOf(i) \notin Tree
    /\ \E i \in LiveNodes :
           /\ CloneOf(i) \in Tree
           /\ hasAttribute(heap, i, <<"o","n","c","l","i","c","k">>) /\ ~hasAttribute(heap, CloneOf(i), <<"o","n","c","l","i","c","k">>)

-----------------------------------------------------------------------------
(* handleToolCall for puppeteer_get_compact_page_representation *)

\* the stages of the callback, during which the page can fail it
Stages ==
    { "clone", "removeComments", "removeTags", "removeNamespaced", "unwrap",
      "stripDataUris", "pruneHidden", "stripAttrs", "prune", "serialize" }

\* what ensureBrowser() comes to: the page, or an error when no browser or
\* page can be had
ensureBrowser ==
    { [ok |-> TRUE, message |-> <<>> ] }
    \cup { [ok |-> FALSE, message |-> m] : m \in { <<"F","a","i","l","e","d"," ","t","o"," ","l","a","u","n","c","h"," ","t","h","e"," ","b","r","o","w","s","e","r"," ","p","r","o","c","e","s","s">> } }

\* the errors page.evaluate rejects with when the page fails the callback
EvaluateErrors ==
    { <<"E","x","e","c","u","t","i","o","n"," ","c","o","n","t","e","x","t"," ","w","a","s"," ","d","e","s","t","r","o","y","e","d">>, <<"C","a","n","n","o","t"," ","r","e","a","d"," ","p","r","o","p","e","r","t","i","e","s"," ","o","f"," ","n","u","l","l">> }

\* the result returned after page.evaluate resolved
compactResult(s) == Resolved(FALSE, <<TextContent(s)>>)

\* the result the catch block returns
compactCatch(message) ==
    Resolved(TRUE, <<TextContent(<<"F","a","i","l","e","d"," ","t","o"," ","g","e","n","e","r","a","t","e"," ","c","o","m","p","a","c","t"," ","r","e","p","r","e","s","e","n","t","a","t","i","o","n",":"," ">> \o message)>>)

\* switch (name): the first step of the tool's case
Dispatch(tool) ==
    CASE tool = "puppeteer_screenshot" -> "setViewport"
      [] tool = "puppeteer_evaluate" -> "evaluate"
      [] tool = "puppeteer_get_compact_page_representation" -> "clone"

\* const page = await ensureBrowser(), before the switch and outside every try:
\* an error it throws rejects the promise of handleToolCall
EnsureBrowser ==
    /\ pc = "ensureBrowser"
    /\ \E r \in ensureBrowser :
          IF r.ok THEN pc' = Dispatch(args.tool) /\ result' = result
          ELSE pc' = "settled" /\ result' = Rejected(r.message)
    /\ UNCHANGED <<pipelineVars, args, calls, handlerVars>>

\* page.evaluate rejects while the callback runs; the catch block returns
EvaluateThrows ==
    /\ pc \in Stages
    /\ \E m \in EvaluateErrors : result' = compactCatch(m)
    /\ pc' = "settled"
    /\ UNCHANGED <<pipelineVars, args, calls, handlerVars>>

\* page.evaluate resolved with the S-expression; the handler returns it
ReturnSexpr ==
    /\ pc = "done"
    /\ result' = compactResult(sexpr)
    /\ pc' = "settled"
    /\ UNCHANGED <<pipelineVars, args, calls, handlerVars>>

InitCall ==
    /\ heap \in Documents
    /\ root = Null
    /\ pc = "ensureBrowser"
    /\ opts = Options
    /\ sexpr = NoResult
    /\ CompactCall
    /\ HandlersIdle

NextCall ==
    \/ EnsureBrowser
    \/ CloneRoot
    \/ RemoveComments
    \/ RemoveTags
    \/ RemoveNamespaced
    \/ UnwrapCustom
    \/ StripDataUris
    \/ PruneHidden
    \/ StripAttrs
    \/ PruneRelevant
    \/ Serialize
    \/ EvaluateThrows
    \/ ReturnSexpr

SpecCall == InitCall /\ [][NextCall]_vars

\* C11 -- No partial success and no escaped failure: the call never rejects;
\* once settled, its result is one text item that is either the complete
\* S-expression of the whole tree with isError false, or a message containing
\* the cause with isError true.
NoEscapedFailure ==
    /\ result.state # "rejected"
    /\ pc = "settled" =>
          /\ result.state = "resolved"
          /\ Len(result.content) = 1
          /\ result.content[1].type = "text"
          /\ IF result.isError
             THEN \E m \in EvaluateErrors \cup {r.message : r \in {x \in ensureBrowser : ~x.ok}} :
                     includes(result.content[1].text, m)
             ELSE result.content[1].text = emit(heap, root, 0, opts)

-----------------------------------------------------------------------------
(* Reading the output: the head token and the attribute keys of a fragment *)

\* the index of the first character of f at or after i that is in `stops`
RECURSIVE Find(_, _, _)
Find(f, i, stops) ==
    IF i > Len(f) \/ f[i] \in stops THEN i ELSE Find(f, i + 1, stops)

\* the index of the quote that closes the quoted string whose text starts at i
RECURSIVE ClosingQuote(_, _)
ClosingQuote(f, i) ==
    IF i > Len(f) THEN i
    ELSE IF f[i] = "\\" THEN ClosingQuote(f, i + 2)
    ELSE IF f[i] = "\"" THEN i
    ELSE ClosingQuote(f, i + 1)

\* the head token of the element fragment f: what stands between '(' and the
\* first space or ')'
HeadOf(f) == SubSeq(f, 2, Find(f, 2, {" ", ")"}) - 1)

\* the keys of the items `:key "value"` of an attribute map, read from index i
RECURSIVE KeysFrom(_, _)
KeysFrom(f, i) ==
    IF i > Len(f) \/ f[i] # ":" THEN <<>>
    ELSE LET j == Find(f, i, {" "})
             k == ClosingQuote(f, j + 2)
         IN  <<SubSeq(f, i + 1, j - 1)>>
             \o (IF k < Len(f) /\ f[k + 1] = " " THEN KeysFrom(f, k + 2) ELSE <<>>)

\* the attribute keys of the element fragment f, in the order it shows them
KeysOf(f) ==
    LET h == Find(f, 2, {" ", ")"})
    IN  IF h < Len(f) /\ f[h] = " " /\ f[h + 1] = "{" THEN KeysFrom(f, h + 2) ELSE <<>>

\* the elements of the working tree
TreeElements == {e \in Tree : isElement(heap, e)}

-----------------------------------------------------------------------------
(* The serialized attribute list *)

\* the keep-set: keepAttrs, or the fixed default set when keepAttrs is empty
KeepSet ==
    IF opts.keepAttrs # <<>> THEN {toLowerCase(a) : a \in Range(opts.keepAttrs)}
    ELSE {<<"i","d">>, <<"c","l","a","s","s">>, <<"n","a","m","e">>, <<"h","r","e","f">>, <<"s","r","c">>, <<"s","r","c","s","e","t">>, <<"f","o","r">>, <<"v","a","l","u","e">>, <<"t","y","p","e">>, <<"r","o","l","e">>}

\* the keys the output shows for element e
ExpectedKeys(e) ==
    ({toLowerCase(a.name) : a \in Range(heap[e].attrs)} \cap KeepSet)
    \ ({<<"c","l","a","s","s">>} \cup (IF trim(getAttributeOrEmpty(heap, e, <<"i","d">>)) # <<>> THEN {<<"i","d">>} ELSE {}))

\* C12 -- Serialized attribute list: the attribute keys each serialized element
\* shows are exactly its attributes whose lower-cased name is in the keep-set,
\* without class and without an id that went into the head, in strictly
\* ascending order; an attribute outside the keep-set never shows.
SerializedAttributeList ==
    pc = "done" =>
        \A e \in TreeElements :
            LET f    == emit(heap, e, 0, opts)
                keys == KeysOf(f)
            IN  /\ includes(sexpr, f)
                /\ Range(keys) = ExpectedKeys(e)
                /\ \A i \in 1..(Len(keys) - 1) : StrLess(keys[i], keys[i + 1])

\* an element shows several keys, in another order than its attributes have,
\* and carries an attribute the output does not show
SerializedAttributeListWitness ==
    /\ pc = "done"
    /\ \E e \in TreeElements :
          LET keys  == KeysOf(emit(heap, e, 0, opts))
              names == getAttributeNames(heap, e)
          IN  /\ Len(keys) >= 2
              /\ includes(sexpr, emit(heap, e, 0, opts))
              /\ \E i, j \in DOMAIN names :
                    i < j /\ names[i] \in Range(keys) /\ names[j] \in Range(keys)
                    /\ StrLess(names[j], names[i])
              /\ \E a \in Range(names) : a \notin Range(keys) /\ a \notin {<<"i","d">>, <<"c","l","a","s","s">>}

-----------------------------------------------------------------------------
(* The head token *)

\* the class tokens of e, in the order the attribute has them
ClassTokens(e) == SplitSpaces(getAttributeOrEmpty(heap, e, <<"c","l","a","s","s">>))

\* '#id' for a non-empty id, then '.class' for each class token in order
HeadSuffixes(e) ==
    LET id == trim(getAttributeOrEmpty(heap, e, <<"i","d">>))
    IN  (IF id # <<>> THEN <<"#">> \o id ELSE <<>>)
        \o join([i \in DOMAIN ClassTokens(e) |-> <<".">> \o ClassTokens(e)[i]], <<>>)

\* C13 -- Head token: the head token of every serialized element is non-empty;
\* a div shows the literal 'div' exactly when it has neither a non-empty id nor
\* a class token and otherwise only its '#id' and '.class' suffixes; a span
\* starts with the alias, any other tag with its name; the '.class' suffixes
\* follow the order of the class tokens.
HeadTokenShape ==
    pc = "done" =>
        \A e \in TreeElements :
            LET f    == emit(heap, e, 0, opts)
                head == HeadOf(f)
                name == tagNameLower(heap, e)
            IN  /\ includes(sexpr, f)
                /\ head # <<>>
                /\ name = <<"d","i","v">> =>
                       /\ head = <<"d","i","v">> <=> HeadSuffixes(e) = <<>>
                       /\ HeadSuffixes(e) # <<>> => head = HeadSuffixes(e)
                /\ name = <<"s","p","a","n">> => head = opts.spanAlias \o HeadSuffixes(e)
                /\ name \notin {<<"d","i","v">>, <<"s","p","a","n">>} => head = name \o HeadSuffixes(e)

\* the output has a bare div, a div shown by two class suffixes alone, a div
\* shown by id and classes, and a span with suffixes
HeadTokenShapeWitness ==
    /\ pc = "done"
    /\ \E e \in TreeElements :
          tagNameLower(heap, e) = <<"d","i","v">> /\ HeadOf(emit(heap, e, 0, opts)) = <<"d","i","v">>
    /\ \E e \in TreeElements :
          tagNameLower(heap, e) = <<"d","i","v">> /\ HeadOf(emit(heap, e, 0, opts)) = <<".","b",".","a">>
    /\ \E e \in TreeElements :
          tagNameLower(heap, e) = <<"d","i","v">> /\ HeadOf(emit(heap, e, 0, opts)) = <<"#","k",".","z",".","y">>
    /\ \E e \in TreeElements :
          tagNameLower(heap, e) = <<"s","p","a","n">> /\ HeadOf(emit(heap, e, 0, opts)) = <<"s","p","a","n","#","s",".","c">>
    /\ includes(sexpr, <<"(",".","b",".","a"," ","\"","t","\"",")">>)

-----------------------------------------------------------------------------
(* Interactive elements and the Relevance Pruner *)

IsInteractive(h, e) == isElement(h, e) /\ tagNameLower(h, e) \in Range(opts.interactiveTags)

\* C15 -- Interactive elements are never lost to relevance pruning: every
\* element with an interactive tag that is in the tree when the Relevance
\* Pruner starts is in the tree when it ends, below the same ancestors.
InteractiveSurvives ==
    [][pc = "prune" =>
          \A e \in Tree :
              IsInteractive(heap, e) =>
                  /\ ({e} \cup Ancestors(heap, e)) \subseteq Subtree(heap', root)
                  /\ Ancestors(heap', e) = Ancestors(heap, e)]_vars

\* the pruner ran on a tree with an interactive element two plain containers
\* deep
InteractiveSurvivesWitness ==
    /\ pc = "serialize"
    /\ \E e \in Tree :
          /\ IsInteractive(heap, e)
          /\ \E a, b \in Ancestors(heap, e) :
                /\ a # b
                /\ \A c \in {a, b} :
                      /\ tagNameLower(heap, c) = <<"d","i","v">>
                      /\ trim(getAttributeOrEmpty(heap, c, <<"i","d">>)) = <<>>
                      /\ ~hasDirectText(heap, c)

-----------------------------------------------------------------------------
(* handleToolCall for puppeteer_screenshot *)

\* a ?? b
OrElse(a, b) == IF a = Undefined THEN b ELSE a

\* path.isAbsolute (POSIX)
isAbsolute(p) == p # <<>> /\ p[1] = "/"

\* the segments of a path after normalization: no empty and no '.' segment,
\* and each '..' takes back the segment before it
RECURSIVE normalizeSegments(_, _)
normalizeSegments(segs, acc) ==
    IF segs = <<>> THEN acc
    ELSE LET s == Head(segs)
         IN  IF s = <<>> \/ s = <<".">> THEN normalizeSegments(Tail(segs), acc)
             ELSE IF s = <<".",".">> /\ acc # <<>> /\ acc[Len(acc)] # <<".",".">>
                  THEN normalizeSegments(Tail(segs), SubSeq(acc, 1, Len(acc) - 1))
             ELSE normalizeSegments(Tail(segs), Append(acc, s))

\* path.join(a, b) (POSIX) for a non-empty absolute a
pathJoin(a, b) == <<"/">> \o join(normalizeSegments(split(a \o <<"/">> \o b, "/"), <<>>), <<"/">>)

\* path.dirname (POSIX) of a path that does not end in '/'
dirname(p) ==
    LET slashes == {i \in DOMAIN p : p[i] = "/"}
    IN  IF slashes = {} THEN <<".">>
        ELSE LET last == CHOOSE i \in slashes : \A j \in slashes : j <= i
             IN  IF last = 1 THEN <<"/">> ELSE SubSeq(p, 1, last - 1)

\* process.cwd()
Cwd == <<"/","s","r","v","/","a","p","p">>

\* process.env.GITHUB_WORKSPACE || process.cwd()
baseDir(en) ==
    IF en.GITHUB_WORKSPACE # Undefined /\ en.GITHUB_WORKSPACE.value # <<>>
    THEN en.GITHUB_WORKSPACE.value
    ELSE Cwd

\* typeof args.filepass === 'string' && args.filepass.trim() ? args.filepass : undefined
filePathInput(a) ==
    IF a.filepass.type = "string" /\ trim(a.filepass.value) # <<>> THEN a.filepass ELSE Undefined

\* the resolved file path, undefined when no file was asked for
filePath(a, en) ==
    IF filePathInput(a) = Undefined THEN Undefined
    ELSE IF isAbsolute(filePathInput(a).value) THEN filePathInput(a)
    ELSE String(pathJoin(baseDir(en), filePathInput(a).value))

\* what can be at a path: nothing, a directory, an empty regular file, a
\* regular file with content
FileStates == {"missing", "directory", "empty", "file"}

Stat(threw, isFile, size) == [threw |-> threw, isFile |-> isFile, size |-> size]

\* stat(path): it throws when nothing is there, and may throw for what is there
statOutcomes(f) ==
    {Stat(TRUE, FALSE, 0)}
    \cup (CASE f = "missing" -> {}
            [] f = "directory" -> {Stat(FALSE, FALSE, 4096)}
            [] f = "empty" -> {Stat(FALSE, TRUE, 0)}
            [] f = "file" -> {Stat(FALSE, TRUE, 68)})

\* writeFile(path, data): it throws, always so on a directory, or leaves a
\* regular file, which another process may have emptied by the time it is read
writeOutcomes(f) ==
    {[threw |-> TRUE, file |-> f]}
    \cup (IF f = "directory" THEN {} ELSE {[threw |-> FALSE, file |-> g] : g \in {"file", "empty"}})

\* the message of an error a file operation throws
FsError == <<"E","A","C","C","E","S",":"," ","p","e","r","m","i","s","s","i","o","n"," ","d","e","n","i","e","d">>

\* st.isFile() without the size test
isValidFileAnySize(st) == st.isFile

\* the negation of !st.isFile() || st.size <= 0
isValidFile(st) == ~(~st.isFile \/ st.size <= 0)

\* state.screenshots.set that keeps the entry a name already has
storeKeepingFirst(s, name, data) ==
    [n \in DOMAIN s \cup {name} |-> IF n \in DOMAIN s THEN s[n] ELSE data]

\* state.screenshots.set(args.name, screenshot)
store(s, name, data) ==
    [n \in DOMAIN s \cup {name} |-> IF n = name THEN data ELSE s[n]]

\* the result of a failed call
errorResult(text) == Resolved(TRUE, <<TextContent(text)>>)

\* the result the catch block of the capture returns
captureFailed(fp, msg) ==
    IF fp # Undefined
    THEN errorResult(<<"S","c","r","e","e","n","s","h","o","t"," ","f","a","i","l","e","d"," ","w","h","i","l","e"," ","s","a","v","i","n","g"," ","t","o"," ","f","i","l","e","\n","P","a","t","h",":"," ">> \o fp.value
                     \o <<"\n","D","i","r",":"," ">> \o dirname(fp.value) \o <<"\n","E","r","r","o","r",":"," ">> \o msg
                     \o <<"\n","P","o","s","s","i","b","l","e"," ","c","a","u","s","e","s",":"," ","p","e","r","m","i","s","s","i","o","n"," ","d","e","n","i","e","d",","," ","i","n","v","a","l","i","d"," ","p","a","t","h",","," ","o","r"," ","i","n","s","u","f","f","i","c","i","e","n","t"," ","d","i","s","k"," ","s","p","a","c","e",".">>)
    ELSE errorResult(<<"S","c","r","e","e","n","s","h","o","t"," ","f","a","i","l","e","d",":"," ">> \o msg)

\* the result returned when the capture gave nothing
notCaptured(a) ==
    IF a.selector # Undefined /\ a.selector.value # <<>>
    THEN errorResult(<<"E","l","e","m","e","n","t"," ","n","o","t"," ","f","o","u","n","d",":"," ">> \o a.selector.value)
    ELSE errorResult(<<"S","c","r","e","e","n","s","h","o","t"," ","f","a","i","l","e","d">>)

\* '(not a regular file)' or '(empty file)'
whyInvalid(st) == IF ~st.isFile THEN <<"(","n","o","t"," ","a"," ","r","e","g","u","l","a","r"," ","f","i","l","e",")">> ELSE <<"(","e","m","p","t","y"," ","f","i","l","e",")">>

\* the result returned with the image, no file asked for
imageResult(a, data) ==
    Resolved(FALSE,
             << TextContent(<<"S","c","r","e","e","n","s","h","o","t"," ","'">> \o a.name \o <<"'"," ","t","a","k","e","n"," ","a","t"," ">>
                            \o OrElse(a.width, Number(800)).value \o <<"x">> \o Number(600).value),
                ImageContent(data) >>)

\* the result returned with the path of the saved file
fileResult(fp) == Resolved(FALSE, <<TextContent(fp.value)>>)

\* the calls the model makes
ScreenshotArgs ==
    { [Args("puppeteer_screenshot") EXCEPT !.name = n, !.selector = s, !.filepass = f, !.width = w] :
          n \in {<<"h","o","m","e">>, <<"c","a","r","t">>},
          s \in {Undefined, String(<<"#","b","u","y">>)},
          f \in {Undefined, String(<<" ">>), Number(7), String(<<"/","t","m","p","/","s","h","o","t",".","p","n","g">>), String(<<".","/","o","u","t","/",".",".","/","s","h","o","t","s","/","a",".","p","n","g">>)},
          w \in {Undefined, Number(1024)} }

\* the base64 data a capture returns
ImageData == {<<"i","V","B","O","R","w","0","K","G","g","o","=">>, <<"R","0","l","G","O","D","l","h">>}

\* handleToolCall('puppeteer_screenshot', args, state, server) is called
ScreenshotCall ==
    /\ pc \in {"idle", "settled"}
    /\ calls < MaxCalls
    /\ \E a \in ScreenshotArgs : args' = a
    /\ result' = Pending
    /\ calls' = calls + 1
    /\ screenshot' = Undefined
    /\ lastStat' = NoStat
    /\ atCall' = Snapshot(screenshots, notifications)
    /\ pc' = "ensureBrowser"
    /\ UNCHANGED <<pipelineVars, screenshots, notifications, file, evaluateVars, configVars>>

\* await page.setViewport, outside every try; then the path is resolved and
\* its directory made, errors of mkdir ignored
SetViewport ==
    /\ pc = "setViewport"
    /\ \/ pc' = "capture" /\ result' = result
       \/ pc' = "settled" /\ result' = Rejected(<<"P","r","o","t","o","c","o","l"," ","e","r","r","o","r",":"," ","T","a","r","g","e","t"," ","c","l","o","s","e","d">>)
    /\ UNCHANGED <<pipelineVars, args, calls, handlerVars>>

\* the capture, with its catch block and the test of what it gave: it throws,
\* or gives nothing (no element matches the selector), an empty string, or the
\* image; with a path, the browser has then written to it
Capture ==
    /\ pc = "capture"
    /\ LET fp == filePath(args, env)
       IN  \/ /\ result' = captureFailed(fp, FsError)
              /\ pc' = "settled"
              /\ UNCHANGED <<screenshot, file>>
           \/ /\ \E v \in {String(<<>>)} \cup (IF args.selector # Undefined THEN {Undefined} ELSE {}) :
                    screenshot' = v
              /\ result' = notCaptured(args)
              /\ pc' = "settled"
              /\ UNCHANGED file
           \/ /\ \E d \in ImageData : screenshot' = String(d)
              /\ IF fp # Undefined THEN file' \in FileStates ELSE file' = file
              /\ result' = result
              /\ pc' = "store"
    /\ UNCHANGED <<pipelineVars, args, calls, screenshots, notifications, lastStat, atCall,
                   evaluateVars, configVars>>

\* state.screenshots.set(args.name, screenshot); notifyScreenshotUpdate(server)
Store ==
    /\ pc = "store"
    /\ screenshots' = store(screenshots, args.name, screenshot.value)
    /\ notifications' = notifications + 1
    /\ pc' = IF filePath(args, env) # Undefined THEN "stat" ELSE "returnImage"
    /\ UNCHANGED <<pipelineVars, callVars, file, screenshot, lastStat, atCall,
                   evaluateVars, configVars>>

\* no file asked for: the image is returned
ReturnImage ==
    /\ pc = "returnImage"
    /\ result' = imageResult(args, screenshot.value)
    /\ pc' = "settled"
    /\ UNCHANGED <<pipelineVars, args, calls, handlerVars>>

\* let st = await stat(filePath), and what follows a valid file
StatFile ==
    /\ pc = "stat"
    /\ \E st \in statOutcomes(file) :
          /\ lastStat' = st
          /\ IF st.threw THEN pc' = "writeMissing" /\ result' = result
             ELSE IF ~isValidFile(st) THEN pc' = "fallbackWrite" /\ result' = result
             ELSE pc' = "settled" /\ result' = fileResult(filePath(args, env))
    /\ UNCHANGED <<pipelineVars, args, calls, screenshots, notifications, file, screenshot,
                   atCall, evaluateVars, configVars>>

\* the file is there but empty or not regular: write the captured data over
\* it and stat it again, one catch block for both
FallbackWrite ==
    /\ pc = "fallbackWrite"
    /\ LET fp == filePath(args, env)
           errored == errorResult(<<"S","c","r","e","e","n","s","h","o","t"," ","f","i","l","e"," ","v","a","l","i","d","a","t","i","o","n"," ","f","a","i","l","e","d"," ","a","n","d"," ","f","a","l","l","b","a","c","k"," ","w","r","i","t","e"," ","e","r","r","o","r","e","d","\n","P","a","t","h",":"," ">>
                                  \o fp.value \o <<"\n","E","r","r","o","r",":"," ">> \o FsError)
       IN  \E w \in writeOutcomes(file) :
              IF w.threw
              THEN result' = errored /\ UNCHANGED <<file, lastStat>>
              ELSE /\ file' = w.file
                   /\ \E st \in statOutcomes(w.file) :
                         /\ lastStat' = st
                         /\ result' =
                               IF st.threw THEN errored
                               ELSE IF ~isValidFile(st)
                               THEN errorResult(<<"S","c","r","e","e","n","s","h","o","t"," ","f","i","l","e"," ","v","a","l","i","d","a","t","i","o","n"," ","f","a","i","l","e","d"," ","a","f","t","e","r"," ","f","a","l","l","b","a","c","k"," ","w","r","i","t","e",":"," ">>
                                                \o fp.value \o <<" ">> \o whyInvalid(st))
                               ELSE fileResult(fp)
    /\ pc' = "settled"
    /\ UNCHANGED <<pipelineVars, args, calls, screenshots, notifications, screenshot, atCall,
                   evaluateVars, configVars>>

\* stat threw (the file is missing): write the captured data, then stat to verify
WriteMissing ==
    /\ pc = "writeMissing"
    /\ LET fp == filePath(args, env)
       IN  \E w \in writeOutcomes(file) :
              IF w.threw
              THEN /\ result' = errorResult(<<"S","c","r","e","e","n","s","h","o","t"," ","r","e","p","o","r","t","e","d"," ","s","u","c","c","e","s","s"," ","b","u","t"," ","f","i","l","e"," ","m","i","s","s","i","n","g",";"," ","f","a","l","l","b","a","c","k"," ","w","r","i","t","e"," ","f","a","i","l","e","d","\n","P","a","t","h",":"," ">>
                                            \o fp.value \o <<"\n","D","i","r",":"," ">> \o dirname(fp.value)
                                            \o <<"\n","E","r","r","o","r",":"," ">> \o FsError)
                   /\ UNCHANGED <<file, lastStat>>
              ELSE /\ file' = w.file
                   /\ \E st \in statOutcomes(w.file) :
                         /\ lastStat' = st
                         /\ result' =
                               IF st.threw
                               THEN errorResult(<<"S","c","r","e","e","n","s","h","o","t"," ","f","a","l","l","b","a","c","k"," ","w","r","i","t","e"," ","v","e","r","i","f","i","c","a","t","i","o","n"," ","f","a","i","l","e","d","\n","P","a","t","h",":"," ">>
                                                \o fp.value \o <<"\n","E","r","r","o","r",":"," ">> \o FsError)
                               ELSE IF ~isValidFile(st)
                               THEN errorResult(<<"S","c","r","e","e","n","s","h","o","t"," ","f","a","l","l","b","a","c","k"," ","w","r","i","t","e"," ","p","r","o","d","u","c","e","d"," ","i","n","v","a","l","i","d"," ","f","i","l","e",":"," ">>
                                                \o fp.value \o <<" ">> \o whyInvalid(st))
                               ELSE fileResult(fp)
    /\ pc' = "settled"
    /\ UNCHANGED <<pipelineVars, args, calls, screenshots, notifications, screenshot, atCall,
                   evaluateVars, configVars>>

InitScreenshot ==
    /\ heap = <<>>
    /\ root = Null
    /\ opts = Options
    /\ sexpr = NoResult
    /\ pc = "idle"
    /\ args = Args("puppeteer_screenshot")
    /\ result = Pending
    /\ calls = 0
    /\ screenshots = <<>>
    /\ notifications = 0
    /\ file \in FileStates
    /\ screenshot = Undefined
    /\ lastStat = NoStat
    /\ atCall = Snapshot(<<>>, 0)
    /\ listeners = <<>>
    /\ logs = <<>>
    /\ env \in {NoEnv, [NoEnv EXCEPT !.GITHUB_WORKSPACE = String(<<"/","w","s">>)]}
    /\ npxArgs = <<>>

NextScreenshot ==
    \/ ScreenshotCall
    \/ EnsureBrowser
    \/ SetViewport
    \/ Capture
    \/ Store
    \/ ReturnImage
    \/ StatFile
    \/ FallbackWrite
    \/ WriteMissing

SpecScreenshot == InitScreenshot /\ [][NextScreenshot]_vars

-----------------------------------------------------------------------------
(* Properties of the screenshot handler *)

\* the call has returned: the promise resolved to a result
Returned == pc = "settled" /\ result.state = "resolved"

\* args.filepass is a string with a character that is not white space
NonBlankFilepass ==
    /\ args.filepass.type = "string"
    /\ \E i \in DOMAIN args.filepass.value : ~IsSpace(args.filepass.value[i])

\* C14 -- Screenshot saved to file: a call with a non-blank filepass that
\* returns isError false returns exactly one text item, the resolved file
\* path, and no image item, and the last stat of that path during the call
\* reported a regular file of size greater than zero.
ScreenshotSavedToFile ==
    Returned /\ NonBlankFilepass /\ ~result.isError =>
        /\ result.content = <<TextContent(filePath(args, env).value)>>
        /\ \A i \in DOMAIN result.content : result.content[i].type # "image"
        /\ ~lastStat.threw /\ lastStat.isFile /\ lastStat.size > 0

\* a call with a relative filepass returned the path resolved against the
\* workspace directory
ScreenshotSavedToFileWitness ==
    /\ Returned /\ NonBlankFilepass /\ ~result.isError
    /\ args.filepass.value = <<".","/","o","u","t","/",".",".","/","s","h","o","t","s","/","a",".","p","n","g">>
    /\ result.content[1].text = <<"/","w","s","/","s","h","o","t","s","/","a",".","p","n","g">>
    /\ lastStat.isFile /\ lastStat.size > 0

\* the capture of the call gave image data
Captured == screenshot # Undefined /\ screenshot.value # <<>>

\* state.screenshots is what the call found, and no notification was sent
StateUntouched ==
    screenshots = atCall.screenshots /\ notifications = atCall.notifications

\* state.screenshots is what the call found but for the entry args.name, now
\* the captured data, and one notification was sent
StateUpdated ==
    /\ DOMAIN screenshots = DOMAIN atCall.screenshots \cup {args.name}
    /\ screenshots[args.name] = screenshot.value
    /\ \A n \in DOMAIN atCall.screenshots \ {args.name} : screenshots[n] = atCall.screenshots[n]
    /\ notifications = atCall.notifications + 1

\* C17 -- Screenshot state on error: the call updates the entry args.name of
\* state.screenshots and sends the notification only when it returns isError
\* false; on every path that returns isError true state.screenshots is
\* unchanged and no notification is sent.
ScreenshotStateOnError ==
    Returned => IF result.isError THEN StateUntouched ELSE StateUpdated

\* C17, amended -- the call updates the entry args.name and sends one
\* notification exactly when the capture gave image data, before the file is
\* validated: on every return with isError false, and on the returns with
\* isError true that file validation or the fallback write make; when the
\* capture threw or gave nothing, state.screenshots is unchanged and no
\* notification is sent.
ScreenshotStateOnCapture ==
    pc = "settled" =>
        /\ Captured => StateUpdated
        /\ ~Captured => StateUntouched
        /\ Returned /\ ~result.isError => Captured
        /\ Returned /\ result.isError /\ Captured => NonBlankFilepass
        /\ ~Returned => StateUntouched

\* a call that failed on file validation overwrote the entry an earlier call
\* had made under the same name
ScreenshotStateOnCaptureWitness ==
    /\ Returned /\ result.isError /\ Captured
    /\ args.name \in DOMAIN atCall.screenshots
    /\ atCall.screenshots[args.name] # screenshot.value
    /\ screenshots[args.name] = screenshot.value
    /\ notifications = 2

-----------------------------------------------------------------------------
(* handleToolCall for puppeteer_evaluate *)

\* the listener a connection keeps on the page, registered before any call
ConnectionListener == 0

\* page.on('console', listener): listeners are called in registration order
on(ls, listener) == Append(ls, listener)

\* page.off('console', listener)
off(ls, listener) == SelectSeq(ls, LAMBDA l : l # listener)

\* the consoleListener of a call, told from the others by the call's number
consoleListener(call) == call

\* a console message and the line consoleListener pushes for it
ConsoleMessage(type, text) == [type |-> type, text |-> text]

logLine(message) == message.type \o <<":"," ">> \o message.text

\* the error page.evaluate rejects with when the page goes away
TargetClosed == <<"P","r","o","t","o","c","o","l"," ","e","r","r","o","r"," ","(","R","u","n","t","i","m","e",".","c","a","l","l","F","u","n","c","t","i","o","n","O","n",")",":"," ","T","a","r","g","e","t"," ","c","l","o","s","e","d">>

\* a run of page.evaluate: it rejects with `message`, or resolves to a value,
\* held as JSON.stringify(result, null, 2) spells it in the template, after the
\* console messages of the script reached the listeners
Rejects(message) == [rejects |-> TRUE, value |-> message, messages |-> <<>>]

Resolves(value, messages) == [rejects |-> FALSE, value |-> value, messages |-> messages]

\* the scripts the model evaluates, each with the runs it can have: on any
\* script the page may go away; a script the wrapper cannot parse rejects; a
\* script that throws is caught in the page, which logs the error and returns
\* {error}
ScriptRuns ==
    [ script \in {<<"r","e","t","u","r","n"," ","4","2">>, <<"c","o","n","s","o","l","e",".","l","o","g","(","'","h","i","'",")">>, <<"r","e","t","u","r","n"," ","x">>, <<"r","e","t","u","r","n"," ","(",";">>} |->
        {Rejects(TargetClosed)}
        \cup (CASE script = <<"r","e","t","u","r","n"," ","4","2">> -> {Resolves(<<"4","2">>, <<>>)}
                [] script = <<"c","o","n","s","o","l","e",".","l","o","g","(","'","h","i","'",")">> ->
                       {Resolves(<<"u","n","d","e","f","i","n","e","d">>, <<ConsoleMessage(<<"l","o","g">>, <<"h","i">>)>>)}
                [] script = <<"r","e","t","u","r","n"," ","x">> ->
                       {Resolves(<<"{","\n"," "," ","\"","e","r","r","o","r","\"",":"," ","\"","x"," ","i","s"," ","n","o","t"," ","d","e","f","i","n","e","d","\"","\n","}">>,
                                 <<ConsoleMessage(<<"e","r","r","o","r">>, <<"S","c","r","i","p","t"," ","e","x","e","c","u","t","i","o","n"," ","e","r","r","o","r",":"," ","x"," ","i","s"," ","n","o","t"," ","d","e","f","i","n","e","d">>)>>)}
                [] script = <<"r","e","t","u","r","n"," ","(",";">> -> {Rejects(<<"S","y","n","t","a","x","E","r","r","o","r",":"," ","U","n","e","x","p","e","c","t","e","d"," ","t","o","k","e","n"," ","'",";","'">>)}) ]

\* the result of a script that ran
evaluateResult(value, lines) ==
    Resolved(FALSE, <<TextContent(<<"E","x","e","c","u","t","i","o","n"," ","r","e","s","u","l","t",":","\n">> \o value \o <<"\n","\n","C","o","n","s","o","l","e"," ","o","u","t","p","u","t",":","\n">>
                                  \o join(lines, <<"\n">>))>>)

\* the result the catch block returns
evaluateCatch(message) ==
    Resolved(TRUE, <<TextContent(<<"S","c","r","i","p","t"," ","e","x","e","c","u","t","i","o","n"," ","f","a","i","l","e","d",":"," ">> \o message
        \o <<"\n","\n","P","o","s","s","i","b","l","e"," ","c","a","u","s","e","s",":","\n","-"," ","S","y","n","t","a","x"," ","e","r","r","o","r"," ","i","n"," ","s","c","r","i","p","t","\n","-"," ","E","x","e","c","u","t","i","o","n"," ","t","i","m","e","o","u","t","\n","-"," ","B","r","o","w","s","e","r"," ","s","e","c","u","r","i","t","y"," ","r","e","s","t","r","i","c","t","i","o","n","s","\n","-"," ","S","e","r","i","a","l","i","z","a","t","i","o","n"," ","i","s","s","u","e","s"," ","w","i","t","h"," ","c","o","m","p","l","e","x"," ","o","b","j","e","c","t","s">>)>>)

\* handleToolCall('puppeteer_evaluate', {script}, state, server) is called
EvaluateCall ==
    /\ pc \in {"idle", "settled"}
    /\ calls < MaxCalls
    /\ \E s \in DOMAIN ScriptRuns :
          args' = [Args("puppeteer_evaluate") EXCEPT !.script = s]
    /\ result' = Pending
    /\ calls' = calls + 1
    /\ logs' = <<>>
    /\ pc' = "ensureBrowser"
    /\ UNCHANGED <<pipelineVars, screenshotVars, listeners, configVars>>

\* const logs = []; page.on('console', consoleListener)
RegisterListener ==
    /\ pc = "evaluate"
    /\ logs' = <<>>
    /\ listeners' = on(listeners, consoleListener(calls))
    /\ pc' = "evaluating"
    /\ UNCHANGED <<pipelineVars, callVars, screenshotVars, configVars>>

\* page.evaluate resolves: the console messages of the script reached the
\* listeners; the call's listener is removed and the result returned
EvaluateResolves ==
    /\ pc = "evaluating"
    /\ \E run \in {r \in ScriptRuns[args.script] : ~r.rejects} :
          LET lines == IF consoleListener(calls) \in Range(listeners)
                       THEN [i \in DOMAIN run.messages |-> logLine(run.messages[i])]
                       ELSE <<>>
          IN  /\ logs' = lines
              /\ result' = evaluateResult(run.value, lines)
    /\ listeners' = off(listeners, consoleListener(calls))
    /\ pc' = "settled"
    /\ UNCHANGED <<pipelineVars, args, calls, screenshotVars, configVars>>

\* page.evaluate rejects: the catch block returns, and nothing removes the
\* listener
EvaluateRejects ==
    /\ pc = "evaluating"
    /\ \E run \in {r \in ScriptRuns[args.script] : r.rejects} : result' = evaluateCatch(run.value)
    /\ pc' = "settled"
    /\ UNCHANGED <<pipelineVars, args, calls, screenshotVars, evaluateVars, configVars>>

InitEvaluate ==
    /\ heap = <<>>
    /\ root = Null
    /\ opts = Options
    /\ sexpr = NoResult
    /\ pc = "idle"
    /\ args = Args("puppeteer_evaluate")
    /\ result = Pending
    /\ calls = 0
    /\ screenshots = <<>>
    /\ notifications = 0
    /\ file = "missing"
    /\ screenshot = Undefined
    /\ lastStat = NoStat
    /\ atCall = Snapshot(<<>>, 0)
    /\ listeners \in {<<>>, <<ConnectionListener>>}
    /\ logs = <<>>
    /\ env = NoEnv
    /\ npxArgs = <<>>

NextEvaluate ==
    \/ EvaluateCall
    \/ EnsureBrowser
    \/ RegisterListener
    \/ EvaluateResolves
    \/ EvaluateRejects

SpecEvaluate == InitEvaluate /\ [][NextEvaluate]_vars

\* the console listeners evaluate calls registered that are still registered
CallListeners == {i \in DOMAIN listeners : listeners[i] # ConnectionListener}

\* C16 -- Console listener is always released: once a puppeteer_evaluate call
\* has returned, with isError false or true, the console listener it
\* registered is no longer registered, so no listener of an evaluate call is
\* left on the page between calls.
ConsoleListenerReleased ==
    pc = "settled" /\ result.state = "resolved" =>
        /\ consoleListener(calls) \notin Range(listeners)
        /\ CallListeners = {}

-----------------------------------------------------------------------------
(* config/browser.ts: the launch options of the NPX configuration *)

commonArgs ==
    << <<"-","-","d","i","s","a","b","l","e","-","w","e","b","-","s","e","c","u","r","i","t","y">>,
       <<"-","-","d","i","s","a","b","l","e","-","f","e","a","t","u","r","e","s","=","I","s","o","l","a","t","e","O","r","i","g","i","n","s",",","s","i","t","e","-","p","e","r","-","p","r","o","c","e","s","s">>,
       <<"-","-","d","i","s","a","b","l","e","-","s","i","t","e","-","i","s","o","l","a","t","i","o","n","-","t","r","i","a","l","s">>,
       <<"-","-","u","s","e","r","-","a","g","e","n","t","=","M","o","z","i","l","l","a","/","5",".","0"," ","(","W","i","n","d","o","w","s"," ","N","T"," ","1","0",".","0",";"," ","W","i","n","6","4",";"," ","x","6","4",")"," ","A","p","p","l","e","W","e","b","K","i","t","/","5","3","7",".","3","6"," ","(","K","H","T","M","L",","," ","l","i","k","e"," ","G","e","c","k","o",")"," ","C","h","r","o","m","e","/","1","2","0",".","0",".","0",".","0"," ","S","a","f","a","r","i","/","5","3","7",".","3","6">> >>

sandboxBypassArgs == << <<"-","-","n","o","-","s","a","n","d","b","o","x">>, <<"-","-","d","i","s","a","b","l","e","-","s","e","t","u","i","d","-","s","a","n","d","b","o","x">> >>

\* typeof process.getuid === 'function' && process.getuid() === 0
isRoot(en) == en.uid # Undefined /\ en.uid = Number(0)

\* process.env.CI === 'true' || process.env.GITHUB_ACTIONS === 'true'
isCI(en) == en.CI = String(<<"t","r","u","e">>) \/ en.GITHUB_ACTIONS = String(<<"t","r","u","e">>)

\* !!process.env.DISPLAY
hasDisplay(en) == en.DISPLAY # Undefined /\ en.DISPLAY.value # <<>>

headlessInNpx(en) == isCI(en) \/ ~hasDisplay(en)

\* Array.prototype.indexOf: 0-based, -1 when absent
arrayIndexOf(a, x) ==
    IF \E i \in DOMAIN a : a[i] = x
    THEN (CHOOSE i \in DOMAIN a : a[i] = x /\ \A j \in 1..(i - 1) : a[j] # x) - 1
    ELSE -1

\* the sandbox flags pushed without looking whether they are there already
withSandboxBypassAgain(a) == a \o sandboxBypassArgs

\* if (npxArgs.indexOf("--no-sandbox") === -1) npxArgs.push(...sandboxBypassArgs)
withSandboxBypass(a) ==
    IF arrayIndexOf(a, <<"-","-","n","o","-","s","a","n","d","b","o","x">>) = -1 THEN a \o sandboxBypassArgs ELSE a

\* the exported npxConfig
npxConfig == [headless |-> headlessInNpx(env), args |-> npxArgs]

\* const npxArgs = isRoot ? [...commonArgs, ...sandboxBypassArgs] : [...commonArgs]
InitNpxArgs ==
    /\ pc = "npxArgs"
    /\ npxArgs' = IF isRoot(env) THEN commonArgs \o sandboxBypassArgs ELSE commonArgs
    /\ pc' = IF headlessInNpx(env) THEN "headless" ELSE "export"
    /\ UNCHANGED <<pipelineVars, callVars, screenshotVars, evaluateVars, env>>

\* headless: unshift "--headless=new", push the two flags for headless Linux
HeadlessFlags ==
    /\ pc = "headless"
    /\ npxArgs' = <<<<"-","-","h","e","a","d","l","e","s","s","=","n","e","w">>>> \o npxArgs \o <<<<"-","-","d","i","s","a","b","l","e","-","d","e","v","-","s","h","m","-","u","s","a","g","e">>, <<"-","-","d","i","s","a","b","l","e","-","g","p","u">>>>
    /\ pc' = IF isRoot(env) \/ isCI(env) THEN "noZygote" ELSE "export"
    /\ UNCHANGED <<pipelineVars, callVars, screenshotVars, evaluateVars, env>>

\* root or CI: make sure the sandbox is off, then push "--no-zygote"
NoZygote ==
    /\ pc = "noZygote"
    /\ npxArgs' = Append(withSandboxBypass(npxArgs), <<"-","-","n","o","-","z","y","g","o","t","e">>)
    /\ pc' = "export"
    /\ UNCHANGED <<pipelineVars, callVars, screenshotVars, evaluateVars, env>>

\* export const npxConfig = { headless: headlessInNpx, args: npxArgs }
ExportNpxConfig ==
    /\ pc = "export"
    /\ pc' = "exported"
    /\ UNCHANGED <<pipelineVars, callVars, handlerVars>>

\* the environments the module is loaded in
Environments ==
    { Env(Undefined, ci, actions, display, uid) :
          ci \in {Undefined, String(<<"t","r","u","e">>), String(<<"f","a","l","s","e">>)},
          actions \in {Undefined, String(<<"t","r","u","e">>)},
          display \in {Undefined, String(<<>>), String(<<":","0">>)},
          uid \in {Undefined, Number(0), Number(1000)} }

InitConfig ==
    /\ heap = <<>>
    /\ root = Null
    /\ opts = Options
    /\ sexpr = NoResult
    /\ pc = "npxArgs"
    /\ args = Args("none")
    /\ result = Pending
    /\ calls = 0
    /\ screenshots = <<>>
    /\ notifications = 0
    /\ file = "missing"
    /\ screenshot = Undefined
    /\ lastStat = NoStat
    /\ atCall = Snapshot(<<>>, 0)
    /\ listeners = <<>>
    /\ logs = <<>>
    /\ env \in Environments
    /\ npxArgs = <<>>

NextConfig ==
    \/ InitNpxArgs
    \/ HeadlessFlags
    \/ NoZygote
    \/ ExportNpxConfig

SpecConfig == InitConfig /\ [][NextConfig]_vars

\* how many times flag x is in the exported args
Occurrences(x) == Cardinality({i \in DOMAIN npxConfig.args : npxConfig.args[i] = x})

\* C18 -- NPX launch arguments: the exported args contain '--no-zygote' only
\* together with '--no-sandbox'; they contain '--no-sandbox' and
\* '--disable-setuid-sandbox' whenever isRoot, and neither of them twice;
\* '--headless=new' is their first element exactly when npxConfig.headless,
\* which is so exactly when isCI or not hasDisplay.
NpxLaunchArguments ==
    pc = "exported" =>
        /\ Occurrences(<<"-","-","n","o","-","z","y","g","o","t","e">>) > 0 => Occurrences(<<"-","-","n","o","-","s","a","n","d","b","o","x">>) > 0
        /\ isRoot(env) =>
               Occurrences(<<"-","-","n","o","-","s","a","n","d","b","o","x">>) = 1 /\ Occurrences(<<"-","-","d","i","s","a","b","l","e","-","s","e","t","u","i","d","-","s","a","n","d","b","o","x">>) = 1
        /\ Occurrences(<<"-","-","n","o","-","s","a","n","d","b","o","x">>) <= 1 /\ Occurrences(<<"-","-","d","i","s","a","b","l","e","-","s","e","t","u","i","d","-","s","a","n","d","b","o","x">>) <= 1
        /\ npxConfig.args[1] = <<"-","-","h","e","a","d","l","e","s","s","=","n","e","w">> <=> npxConfig.headless
        /\ npxConfig.headless <=>
               \/ env.CI = String(<<"t","r","u","e">>) \/ env.GITHUB_ACTIONS = String(<<"t","r","u","e">>)
               \/ env.DISPLAY \in {Undefined, String(<<>>)}

\* root in CI with a display: headless, the sandbox flags there from the
\* start and '--no-zygote' last
NpxLaunchArgumentsWitness ==
    /\ pc = "exported"
    /\ isRoot(env) /\ isCI(env) /\ hasDisplay(env)
    /\ npxConfig.args[1] = <<"-","-","h","e","a","d","l","e","s","s","=","n","e","w">>
    /\ npxConfig.args[Len(npxConfig.args)] = <<"-","-","n","o","-","z","y","g","o","t","e">>
    /\ Occurrences(<<"-","-","n","o","-","s","a","n","d","b","o","x">>) = 1

=============================================================================
